---------------------------- MODULE Spec2Model ----------------------------
(***************************************************************************)
(* Asset Bender (django runtime): the retrying fetch layer of              *)
(* asset_bender/http.py and the version resolution, durable cache and      *)
(* scaffold assembly of asset_bender/bundling.py.                          *)
(*                                                                         *)
(* Eight specifications share the definitions:                             *)
(*   SpecFetch     one call of fetch_ab_url_with_retries, attempt by       *)
(*                 attempt;                                                *)
(*   Spec          S3BundleFetcher sessions resolving build versions over  *)
(*                 the shared project_version_cache;                       *)
(*   SpecScaffold  BenderAssets._generate_scaffold_without_cache, bundle   *)
(*                 by bundle;                                              *)
(*   SpecHelpers   the pure helpers, each applied to enumerated inputs;    *)
(*   SpecRequests  requests calling generate_scaffold over the shared      *)
(*                 scaffold_cache;                                         *)
(*   SpecUrls      get_static_url and get_bender_asset_url on a request's  *)
(*                 BenderAssets or a template context;                     *)
(*   SpecLoader    threads calling _load_json_file_with_cache;             *)
(*   SpecSessions  concurrent sessions resolving build versions while      *)
(*                 deploys invalidate the project_version_cache.           *)
(* The code is Python 2 (print statements, izip_longest, basestring,       *)
(* sorted(cmp=...)); comparisons with None follow Python 2.                *)
(***************************************************************************)
EXTENDS Integers, Sequences, FiniteSets, TLC

VARIABLES
    \* ---- fetch_ab_url_with_retries (http.py) ----
    f_pc,           \* "idle" | "loop" | "returned" | "raised"
    f_args,         \* the call's arguments: [retries, timeouts], each optional
    retries,        \* the local `retries` after defaulting
    timeouts,       \* the local `timeouts` after defaulting ([isNone, seq])
    attempt,        \* the local `attempt`
    latest_result,  \* the local `latest_result` (a response or None)
    f_calls,        \* the timeouts passed to _download_url, in call order
    f_fails,        \* how many _download_url calls raised a caught exception
    f_okAt,         \* attempt number of the call that returned, 0 if none yet
    f_reply,        \* what the network answered to the latest _download_url call
    f_out,          \* what the call returned or raised
    \* ---- version resolution (bundling.py) ----
    files,                  \* the manifests under PROJ_DIR/static and os.environ, as loaded
    project_version_cache,  \* the durable cache: (project, host_project) -> build name
    invalidated,            \* the keys whose entry a deploy invalidated, not written since
    s3,                     \* the S3BundleFetcher of the current resolution session
    last,                   \* what the latest operation did
    \* ---- scaffold assembly (bundling.py) ----
    assets,                 \* the BenderAssets of the request and the scaffold it is building
    \* ---- helpers without state (bundling.py) ----
    helper,                 \* the latest call of a helper: its name, arguments and result
    \* ---- requests (bundling.py) ----
    scaffold_cache,         \* the durable cache of scaffolds: pairs <<scaffold_key, scaffold>>
    template_context,       \* the template context of the page being rendered
    \* ---- manifest files (bundling.py) ----
    _file_json_cache,       \* the module's dict: path -> data
    loading,                \* the calls of _load_json_file_with_cache in progress, per thread
    \* ---- concurrent resolution sessions (bundling.py) ----
    resolutions             \* the _fetch_build_version calls in progress, per session

fetchVars == <<f_pc, f_args, retries, timeouts, attempt, latest_result, f_calls, f_fails, f_okAt, f_reply, f_out>>

resolverVars == <<files, project_version_cache, invalidated, s3, last>>

requestVars == <<scaffold_cache, template_context>>

loaderVars == <<_file_json_cache, loading>>

vars == <<fetchVars, resolverVars, assets, helper, requestVars, loaderVars, resolutions>>

\* No helper called.
NoHelper == [op |-> "none"]

(***************************************************************************)
(* Bounds                                                                  *)
(***************************************************************************)
MaxTimeouts == 3
MaxRetries == 4
\* forceBuildFor- parameters in one request
MaxForced == 1
\* bundle paths in one request
MaxBundles == 2

\* `Body` of the value of `v`, which is computed once: a local of the code
\* is assigned once and read many times.
With(v, Body(_)) == CHOOSE out \in {Body(local) : local \in {v}} : TRUE

Min(a, b) == IF a <= b THEN a ELSE b

(***************************************************************************)
(* Python values                                                           *)
(***************************************************************************)
\* An optional integer: Python's None or an int.
NoneInt == [isNone |-> TRUE, v |-> 0]
SomeInt(n) == [isNone |-> FALSE, v |-> n]

\* Python 2 orders None before every number: None >= n is False.
PyGe(a, n) == ~a.isNone /\ a.v >= n
PyLt(a, n) == a.isNone \/ a.v < n

\* list[i] with Python's 0-based index, negative indexes counting from the end.
PyIndexOk(s, i) == IF i >= 0 THEN i < Len(s) ELSE -i <= Len(s)
PyIndex(s, i) == IF i >= 0 THEN s[i + 1] ELSE s[Len(s) + i + 1]

(***************************************************************************)
(* The network as _download_url sees it                                    *)
(***************************************************************************)
TimeoutVals == {1, 2, 5}
Statuses == {200, 304, 400, 404, 410, 500}
Bodies == {1, 2}

\* What requests.get does for one attempt: a response, or a transport error.
Replies == [kind : {"response"}, status : Statuses, body : Bodies] \cup [kind : {"ConnectionError", "Timeout", "FauxException"}, status : {0}, body : {0}]

NoReply == [kind |-> "none", status |-> 0, body |-> 0]

NoResponse == [isNone |-> TRUE, status |-> 0, body |-> 0]
Response(reply) == [isNone |-> FALSE, status |-> reply.status, body |-> reply.body]

\* An exception instance: its class, the status of the response it carries
\* (HTTPError only), the attempt that raised it, and the AssetBenderException
\* message class wrapped around it ("none" when it is raised as it is).
Exc(type, status, at) == [type |-> type, status |-> status, at |-> at, wrapper |-> "none"]
Wrap(e, class) == [e EXCEPT !.wrapper = class]
NoExc == Exc("none", NoneInt, 0)

\* Response.raise_for_status: HTTPError for a 4xx or 5xx status.
raise_for_status_raises(status) == 400 <= status /\ status < 600

\* _download_url: requests.get, then raise_for_status.
_download_url(reply, at) ==
    IF reply.kind # "response" THEN [raised |-> TRUE, e |-> Exc(reply.kind, NoneInt, at), result |-> NoResponse]
    ELSE IF raise_for_status_raises(reply.status) THEN [raised |-> TRUE, e |-> Exc("HTTPError", SomeInt(reply.status), at), result |-> NoResponse]
    ELSE [raised |-> FALSE, e |-> NoExc, result |-> Response(reply)]

(***************************************************************************)
(* fetch_ab_url_with_retries                                               *)
(***************************************************************************)
NoneSeq == [isNone |-> TRUE, seq |-> <<>>]
SomeSeq(s) == [isNone |-> FALSE, seq |-> s]

SeqsUpTo(S, n) == UNION {[1..k -> S] : k \in 0..n}

\* The timeouts argument: omitted, or a list of up to MaxTimeouts timeouts.
TimeoutArgs == {NoneSeq} \cup {SomeSeq([i \in 1..Len(s) |-> SomeInt(s[i])]) : s \in SeqsUpTo(TimeoutVals, MaxTimeouts)}
\* The retries argument: omitted, or a count.
RetryArgs == {NoneInt} \cup {SomeInt(n) : n \in 0..MaxRetries}

\* Lines 32-36: the defaults.
default_retries(r, t) == IF r.isNone /\ t.isNone THEN 1 ELSE IF r.isNone THEN Len(t.seq) ELSE r.v
default_timeouts(r, t) == IF r.isNone /\ t.isNone THEN SomeSeq(<<NoneInt>>) ELSE t

\* The escalation forgotten: every attempt uses the first timeout.
timeout_index_first(t, a) == 0

\* Line 39: the index of this attempt's timeout.
timeout_index(t, a) == Min(Len(t), a) - 1

\* Line 46: status_code = getattr(latest_result, 'status_code', None).
status_code_of(lr) == IF lr.isNone THEN NoneInt ELSE SomeInt(lr.status)

\* Off by one: the last attempt is taken for one that can be retried.
has_retries_left_inclusive(a, r) == a <= r

\* Line 49: more attempts remain.
has_retries_left(a, r) == a < r

\* Lines 53-67: the failure of the last attempt, by status_code.
classify(e, status_code) ==
    IF PyGe(status_code, 500) THEN Wrap(e, "server")
    ELSE IF ~status_code.isNone /\ status_code.v \in {404, 410} THEN Wrap(e, "notfound")
    ELSE IF ~status_code.isNone /\ (status_code.v >= 400 \/ status_code.v < 200) THEN Wrap(e, "client")
    ELSE e

Returned(r) == [how |-> "returned", result |-> r, e |-> NoExc]
Raised(e) == [how |-> "raised", result |-> NoResponse, e |-> e]
NoOutcome == [how |-> "none", result |-> NoResponse, e |-> NoExc]

FetchIdle ==
    /\ f_pc = "idle"
    /\ f_args = [retries |-> NoneInt, timeouts |-> NoneSeq]
    /\ retries = 0
    /\ timeouts = NoneSeq
    /\ attempt = 0
    /\ latest_result = NoResponse
    /\ f_calls = <<>>
    /\ f_fails = 0
    /\ f_okAt = 0
    /\ f_reply = NoReply
    /\ f_out = NoOutcome

\* Lines 29-36: the call, up to the loop.
FetchCall(r, t) ==
    /\ f_pc = "idle"
    /\ f_pc' = "loop"
    /\ f_args' = [retries |-> r, timeouts |-> t]
    /\ attempt' = 1
    /\ latest_result' = NoResponse
    /\ retries' = default_retries(r, t)
    /\ timeouts' = default_timeouts(r, t)
    /\ UNCHANGED <<f_calls, f_fails, f_okAt, f_reply, f_out>>

\* Lines 38-69: one pass of the loop body.
FetchAttempt(reply) ==
    /\ f_pc = "loop"
    /\ attempt <= retries
    /\ IF timeouts.isNone
       THEN \* len(None)
            /\ f_pc' = "raised"
            /\ f_out' = Raised(Exc("TypeError", NoneInt, attempt))
            /\ UNCHANGED <<attempt, latest_result, f_calls, f_fails, f_okAt, f_reply>>
       ELSE IF ~PyIndexOk(timeouts.seq, timeout_index(timeouts.seq, attempt))
       THEN \* [][-1]
            /\ f_pc' = "raised"
            /\ f_out' = Raised(Exc("IndexError", NoneInt, attempt))
            /\ UNCHANGED <<attempt, latest_result, f_calls, f_fails, f_okAt, f_reply>>
       ELSE LET timeout == PyIndex(timeouts.seq, timeout_index(timeouts.seq, attempt))
                d == _download_url(reply, attempt)
            IN  /\ f_calls' = Append(f_calls, timeout)
                /\ f_reply' = reply
                /\ IF ~d.raised
                   THEN /\ latest_result' = d.result
                        /\ f_pc' = "returned"
                        /\ f_out' = Returned(d.result)
                        /\ f_okAt' = attempt
                        /\ UNCHANGED <<attempt, f_fails>>
                   ELSE /\ f_fails' = f_fails + 1
                        /\ UNCHANGED <<latest_result, f_okAt>>
                        /\ IF has_retries_left(attempt, retries)
                           THEN /\ attempt' = attempt + 1
                                /\ UNCHANGED <<f_pc, f_out>>
                           ELSE /\ f_pc' = "raised"
                                /\ f_out' = Raised(classify(d.e, status_code_of(latest_result)))
                                /\ UNCHANGED attempt
    /\ UNCHANGED <<f_args, retries, timeouts>>

\* Line 71: the loop ended without a return or a raise.
FetchFallOut ==
    /\ f_pc = "loop"
    /\ attempt > retries
    /\ f_pc' = "returned"
    /\ f_out' = Returned(latest_result)
    /\ UNCHANGED <<f_args, retries, timeouts, attempt, latest_result, f_calls, f_fails, f_okAt, f_reply>>


(***************************************************************************)
(* Build names                                                             *)
(***************************************************************************)
\* A version string: '' or None ("none"), a specific build 'static-M.m'
\* ("build"), a bare build number 'M.m' ("num"), or a pointer such as
\* 'current' or 'edge' ("ptr").
Empty == [kind |-> "none", name |-> "", major |-> 0, minor |-> 0]
Build(M, m) == [kind |-> "build", name |-> "", major |-> M, minor |-> m]
Num(M, m) == [kind |-> "num", name |-> "", major |-> M, minor |-> m]
Pointer(n) == [kind |-> "ptr", name |-> n, major |-> 0, minor |-> 0]

\* Python truth of a string or None.
Truthy(v) == v.kind # "none"

\* "static-%s" % build
StaticPrefix(v) == IF v.kind = "num" THEN Build(v.major, v.minor) ELSE v

\* A response body: a version string, possibly followed by a line break.
Text(v, pad) == [v |-> v, pad |-> pad]
TextIsEmpty(t) == t.v.kind = "none" /\ ~t.pad
Strip(t) == t.v

Projects == {"x", "y"}
\* settings.PROJ_NAME
HostProject == "x"

B_1_9 == Build(1, 9)
B_1_10 == Build(1, 10)
B_2_0 == Build(2, 0)

\* What the manifests can hold.
StaticConfValues == {Empty, B_1_9}
PrebuiltBuildValues == {Empty, Num(1, 10)}
PrebuiltDepValues == {Empty, B_2_0}
FrozenValues == {Empty, B_1_10}
EnvironValues == {Empty, B_1_9}

\* What fetch_ab_url_with_retries(url, timeouts=[1, 2, 5]) gives for a
\* pointer file: it raises, or it returns a response with a body.
PointerBodies == {Text(Empty, FALSE), Text(Empty, TRUE), Text(B_1_9, TRUE), Text(Pointer("current"), TRUE)}
NetOutcomes == [raised : {TRUE}, text : {Text(Empty, FALSE)}] \cup [raised : {FALSE}, text : PointerBodies]

(***************************************************************************)
(* project_version_cache: CustomUseGenCache over the buckets               *)
(* 'static_build_name_for:project' and 'static_deps_for_project:host_project' *)
(***************************************************************************)
\* The entries this process reads and writes: its own host_project's.
CacheKeys == Projects \X {HostProject}
EmptyCache == [k \in CacheKeys |-> Empty]

cache_get(c, project, host_project) == c[<<project, host_project>>]
cache_set(c, value, project, host_project) == [c EXCEPT ![<<project, host_project>>] = value]
\* invalidate(bucket, **params): every entry whose generation for that bucket
\* and parameter is bumped becomes a miss.
cache_invalidate_project(c, project) == [k \in CacheKeys |-> IF k[1] = project THEN Empty ELSE c[k]]
cache_invalidate_host_project(c, host_project) == [k \in CacheKeys |-> IF k[2] = host_project THEN Empty ELSE c[k]]

\* Only the first bucket is invalidated.
invalidate_project_bucket_only(c, project_name) == cache_invalidate_project(c, project_name)

\* Lines 87-95 (the version cache).
invalidate_cache_for_deploy(c, project_name) == cache_invalidate_host_project(cache_invalidate_project(c, project_name), project_name)

\* scaffold_cache: CustomUseGenCache over the buckets 'bender_all_scaffolds'
\* and 'bender_scaffold_for_project:scaffold_key'. A get gives the scaffolds
\* stored under the key: one, or none.
NoScaffolds == {}
scaffold_cache_get(c, scaffold_key) == {e[2] : e \in {x \in c : x[1] = scaffold_key}}
scaffold_cache_set(c, scaffold, scaffold_key) == {x \in c : x[1] # scaffold_key} \cup {<<scaffold_key, scaffold>>}
scaffold_cache_invalidate_all(c) == NoScaffolds
scaffold_cache_invalidate_key(c, scaffold_key) == {x \in c : x[1] # scaffold_key}

(***************************************************************************)
(* S3BundleFetcher: the sources of a build version                         *)
(***************************************************************************)
Ok(v) == [ok |-> TRUE, val |-> v, exc |-> ""]
Raise(x) == [ok |-> FALSE, val |-> Empty, exc |-> x]

\* Lines 380-381: build_name.startswith('static-').
_is_specific_build_name(build_name) == build_name.kind = "build"

\* Lines 566-572: deps.get(project_name, 'current').
_get_version_from_static_conf(project_name) == IF Truthy(files.static_conf[project_name]) THEN files.static_conf[project_name] ELSE Pointer("current")

\* The host project looked up in the deps like any other.
get_prebuilt_version_from_deps(project_name) == files.prebuilt_deps[project_name]

\* Lines 594-609.
_get_prebuilt_version(project_name) ==
    IF project_name = HostProject
    THEN (IF Truthy(files.prebuilt_build) THEN StaticPrefix(files.prebuilt_build) ELSE Empty)
    ELSE files.prebuilt_deps[project_name]

\* Lines 611-620.
_get_frozen_at_deploy_version(project_name) == files.frozen[project_name]

\* Lines 535-547.
_fetch_local_project_build_version(project_name) ==
    IF project_name = HostProject
    THEN (IF Truthy(_get_prebuilt_version(project_name)) THEN _get_prebuilt_version(project_name) ELSE files.environ[project_name])
    ELSE Empty

\* Lines 580-592. `net` is what fetch_ab_url_with_retries does for the url.
\* An empty body reaches line 589, a method the class does not have.
_fetch_version_from_version_pointer(pointer, project_name, net) ==
    IF net.raised THEN Raise("FetchError")
    ELSE IF TextIsEmpty(net.text) THEN Raise("AttributeError")
    ELSE Ok(Strip(net.text))

\* Lines 638-639: int() of both parts of a build name.
Parses(build) == build.kind \in {"build", "num"}

\* Lines 626-644: cmp of two parsed build names.
_compare_build_names(x_build, y_build) ==
    IF x_build.major < y_build.major THEN -1
    ELSE IF x_build.major > y_build.major THEN 1
    ELSE IF x_build.minor < y_build.minor THEN -1
    ELSE IF x_build.minor > y_build.minor THEN 1
    ELSE 0

\* SelectSeq(args, Truthy), written out for the bounded argument lists.
FilterTruthy(args) == SelectSeq(args, Truthy)

\* sorted(args, cmp=...).pop(): the last of the greatest elements (the sort is
\* stable).
\* The first one taken for the greatest.
first_of_the_present(a) == a[1]

LastGreatest(a) ==
    a[CHOOSE i \in 1..Len(a) :
        /\ \A j \in 1..Len(a) : _compare_build_names(a[j], a[i]) <= 0
        /\ \A j \in (i + 1)..Len(a) : _compare_build_names(a[j], a[i]) < 0]

\* Lines 622-624. pop() of an empty list raises IndexError; a list of one is
\* never compared; in a longer one every element is compared, and int() of a
\* pointer raises ValueError.
_maximum_version_of(args) ==
    LET a == FilterTruthy(args)
    IN  IF Len(a) = 0 THEN Raise("IndexError")
        ELSE IF Len(a) = 1 THEN Ok(a[1])
        ELSE IF \E i \in 1..Len(a) : ~Parses(a[i]) THEN Raise("ValueError")
        ELSE Ok(LastGreatest(a))

WithFetch(r, n) == [ok |-> r.ok, val |-> r.val, exc |-> r.exc, fetches |-> n]

\* A resolution that goes on without the pointer candidate when its fetch
\* raised or came back empty.
fetch_build_version_without_pointer_on_failure(project_name, net) ==
    LET static_conf_version == _get_version_from_static_conf(project_name)
        pointer_build_version == _fetch_version_from_version_pointer(static_conf_version, project_name, net)
        pointer_or_absent == IF pointer_build_version.ok THEN pointer_build_version.val ELSE Empty
    IN  IF _is_specific_build_name(static_conf_version) THEN WithFetch(Ok(static_conf_version), 0)
        ELSE WithFetch(_maximum_version_of(<<pointer_or_absent, _get_prebuilt_version(project_name), _get_frozen_at_deploy_version(project_name)>>), 1)

\* Lines 549-564.
_fetch_build_version_without_cache(project_name, net) ==
    LET static_conf_version == _get_version_from_static_conf(project_name)
        pointer_build_version == _fetch_version_from_version_pointer(static_conf_version, project_name, net)
        prebuilt_build_version == _get_prebuilt_version(project_name)
        frozen_by_deploy_version == _get_frozen_at_deploy_version(project_name)
    IN  IF _is_specific_build_name(static_conf_version) THEN WithFetch(Ok(static_conf_version), 0)
        ELSE IF ~pointer_build_version.ok THEN WithFetch(pointer_build_version, 1)
        ELSE WithFetch(_maximum_version_of(<<pointer_build_version.val, prebuilt_build_version, frozen_by_deploy_version>>), 1)

\* The outcome of one _fetch_build_version: what it returns or raises, where
\* the value came from, the cache and memo it leaves, and what it touched.
Resolution(r, source, memo, cache, read, wrote, fetches) ==
    [ok |-> r.ok, val |-> r.val, exc |-> r.exc, source |-> source, memo |-> memo, cache |-> cache,
     cacheRead |-> read, cacheWrite |-> wrote, fetches |-> fetches]

\* The result written to the memo only.
fetch_build_version_cached_in_memo_only(memo, cache, project_name, net) ==
    LET got == cache_get(cache, project_name, HostProject)
        fresh == _fetch_build_version_without_cache(project_name, net)
        build_version == IF Truthy(got) THEN Ok(got) ELSE fresh
        source == IF Truthy(got) THEN "cache" ELSE "origin"
        fetches == IF Truthy(got) THEN 0 ELSE fresh.fetches
    IN  IF ~build_version.ok THEN Resolution(build_version, source, memo, cache, TRUE, FALSE, fetches)
        ELSE IF ~Truthy(build_version.val) THEN Resolution(Raise("NameError"), source, memo, cache, TRUE, FALSE, fetches)
        ELSE Resolution(build_version, source, [memo EXCEPT ![project_name] = build_version.val], cache, TRUE, TRUE, fetches)

\* Lines 512-533: the durable cache, then the origin; the result is written
\* to the cache and to the memo. BundleException is not a name of the module.
_fetch_build_version_cached(memo, cache, project_name, net) ==
    LET got == cache_get(cache, project_name, HostProject)
        fresh == _fetch_build_version_without_cache(project_name, net)
        build_version == IF Truthy(got) THEN Ok(got) ELSE fresh
        source == IF Truthy(got) THEN "cache" ELSE "origin"
        fetches == IF Truthy(got) THEN 0 ELSE fresh.fetches
    IN  IF ~build_version.ok THEN Resolution(build_version, source, memo, cache, TRUE, FALSE, fetches)
        ELSE IF ~Truthy(build_version.val) THEN Resolution(Raise("NameError"), source, memo, cache, TRUE, FALSE, fetches)
        ELSE Resolution(build_version, source, [memo EXCEPT ![project_name] = build_version.val],
                        cache_set(cache, build_version.val, project_name, HostProject), TRUE, TRUE, fetches)

\* The memo (and with it the forced versions) looked up before the local version.
_fetch_build_version_memo_first(memo, cache, project_name, net) ==
    IF Truthy(memo[project_name])
    THEN Resolution(Ok(memo[project_name]), "memo", memo, cache, FALSE, FALSE, 0)
    ELSE IF Truthy(_fetch_local_project_build_version(project_name))
    THEN Resolution(Ok(_fetch_local_project_build_version(project_name)), "local", memo, cache, FALSE, FALSE, 0)
    ELSE _fetch_build_version_cached(memo, cache, project_name, net)

\* The memo never looked up.
fetch_build_version_without_memo(memo, cache, project_name, net) ==
    IF Truthy(_fetch_local_project_build_version(project_name))
    THEN Resolution(Ok(_fetch_local_project_build_version(project_name)), "local", memo, cache, FALSE, FALSE, 0)
    ELSE _fetch_build_version_cached(memo, cache, project_name, net)

\* Lines 499-533.
_fetch_build_version(memo, cache, project_name, net) ==
    IF Truthy(_fetch_local_project_build_version(project_name))
    THEN Resolution(Ok(_fetch_local_project_build_version(project_name)), "local", memo, cache, FALSE, FALSE, 0)
    ELSE IF Truthy(memo[project_name])
    THEN Resolution(Ok(memo[project_name]), "memo", memo, cache, FALSE, FALSE, 0)
    ELSE _fetch_build_version_cached(memo, cache, project_name, net)


(***************************************************************************)
(* Resolution sessions                                                     *)
(***************************************************************************)
NoFetches == [q \in Projects |-> 0]
OneFetch(p, n) == [q \in Projects |-> IF q = p THEN n ELSE 0]

EmptyMemo == [q \in Projects |-> Empty]

\* The forceBuildFor-<project> values of a request: none, a specific build,
\* or a pointer.
ForcedValues == {Empty, B_2_0, Pointer("edge")}
ForcedMaps == {m \in [Projects -> ForcedValues] : Cardinality({q \in Projects : Truthy(m[q])}) <= MaxForced}
PointerForced(forced) == {q \in Projects : Truthy(forced[q]) /\ forced[q].kind # "build"}

\* The orders in which a dict's items can come.
Orders(S) == {o \in SeqsUpTo(S, Cardinality(S)) : Len(o) = Cardinality(S) /\ \A q \in S : \E i \in 1..Len(o) : o[i] = q}

\* What the pointer fetch of a resolution came back with: it raised, an empty
\* body, a body of white space only, or a body with text; "" without a fetch.
PointerGave(net, fetches) ==
    IF fetches = 0 THEN ""
    ELSE IF net.raised THEN "raised"
    ELSE IF TextIsEmpty(net.text) THEN "empty"
    ELSE IF ~Truthy(Strip(net.text)) THEN "blank"
    ELSE "text"

NoLast == [op |-> "none", project |-> "", ok |-> TRUE, val |-> Empty, exc |-> "", source |-> "", cacheRead |-> FALSE, cacheWrite |-> FALSE, fetches |-> NoFetches, pointer |-> "", daemon |-> ""]

\* The session's fetcher: its per_request_project_build_version_cache (memo),
\* the forced versions it was constructed with, and the memo as the
\* constructor left it (seeded).
NoFetcher == [alive |-> FALSE, memo |-> EmptyMemo, forced |-> EmptyMemo, seeded |-> EmptyMemo]

\* A constructor that leaves the forced versions out of the memo.
add_no_forced_versions(memo, forced, items, nets, fetches) == [ok |-> TRUE, exc |-> "", memo |-> memo, fetches |-> fetches]

\* Lines 368-378, one item after the other; a pointer that cannot be fetched
\* ends the constructor with its exception.
RECURSIVE _add_forced_versions_to_per_request_cache(_, _, _, _, _)
_add_forced_versions_to_per_request_cache(memo, forced, items, nets, fetches) ==
    IF items = <<>> THEN [ok |-> TRUE, exc |-> "", memo |-> memo, fetches |-> fetches]
    ELSE LET dep_name == Head(items)
             dep_value == forced[dep_name]
             r == _fetch_version_from_version_pointer(dep_value, dep_name, nets[dep_name])
         IN  IF _is_specific_build_name(dep_value)
             THEN _add_forced_versions_to_per_request_cache([memo EXCEPT ![dep_name] = dep_value], forced, Tail(items), nets, fetches)
             ELSE IF r.ok
             THEN _add_forced_versions_to_per_request_cache([memo EXCEPT ![dep_name] = r.val], forced, Tail(items), nets, [fetches EXCEPT ![dep_name] = @ + 1])
             ELSE [ok |-> FALSE, exc |-> r.exc, memo |-> memo, fetches |-> [fetches EXCEPT ![dep_name] = @ + 1]]

\* Lines 339-350: S3BundleFetcher(host_project_name, is_debug, forced).
NewS3Fetcher(forced, items, nets) ==
    LET r == _add_forced_versions_to_per_request_cache(EmptyMemo, forced, items, nets, NoFetches)
    IN  /\ s3' = IF r.ok THEN [alive |-> TRUE, memo |-> r.memo, forced |-> forced, seeded |-> r.memo] ELSE [NoFetcher EXCEPT !.forced = forced]
        /\ last' = [NoLast EXCEPT !.op = "new_s3", !.ok = r.ok, !.exc = r.exc, !.fetches = r.fetches]
        /\ UNCHANGED <<files, project_version_cache, invalidated>>

\* S3BundleFetcher._fetch_build_version(project_name) on the session's fetcher.
FetchBuildVersion(p, net) ==
    /\ s3.alive
    /\ LET r == _fetch_build_version(s3.memo, project_version_cache, p, net)
       IN  /\ s3' = [s3 EXCEPT !.memo = r.memo]
           /\ project_version_cache' = r.cache
           /\ invalidated' = IF r.cacheWrite THEN invalidated \ {<<p, HostProject>>} ELSE invalidated
           /\ last' = [op |-> "fetch_build_version", project |-> p, ok |-> r.ok, val |-> r.val, exc |-> r.exc, source |-> r.source, cacheRead |-> r.cacheRead, cacheWrite |-> r.cacheWrite, fetches |-> OneFetch(p, r.fetches), pointer |-> PointerGave(net, r.fetches), daemon |-> ""]
    /\ UNCHANGED files

\* invalidate_cache_for_deploy(project_name), run by a deploy.
InvalidateCacheForDeploy(p) ==
    /\ project_version_cache' = invalidate_cache_for_deploy(project_version_cache, p)
    /\ scaffold_cache' = scaffold_cache_invalidate_all(scaffold_cache)
    /\ invalidated' = invalidated \cup {k \in CacheKeys : (k[1] = p \/ k[2] = p) /\ Truthy(project_version_cache[k])}
    /\ last' = [NoLast EXCEPT !.op = "invalidate", !.project = p]
    /\ UNCHANGED <<files, s3>>

\* No template context: `given` and `bender_assets` tell whether a context
\* is there and holds a BenderAssets; the rest counts, for the page being
\* rendered, the calls of get_static_url and, for those given the context,
\* the BenderAssets they constructed and, per project, the resolutions that
\* read the durable cache and succeeded.
NoContext == [given |-> FALSE, bender_assets |-> FALSE, calls |-> 0, constructed |-> 0, reads |-> [q \in Projects |-> 0]]
NoJson == {}
NoLoading == <<>>
NoResolutions == <<>>

(***************************************************************************)
(* BenderAssets: assembling a scaffold                                     *)
(***************************************************************************)
\* Lines 28-31.
CSS_EXTENSIONS == {"css", "sass", "scss"}
JS_EXTENSIONS == {"js", "coffee"}
NON_PRECOMPILED_EXTENSIONS == {"js", "css"}
PRECOMPILED_EXTENSIONS == (CSS_EXTENSIONS \cup JS_EXTENSIONS) \ NON_PRECOMPILED_EXTENSIONS

\* A path '<project>/<static>/<dir>/<name><suffix>': its project, the
\* version after 'static-' in its second segment (none for 'static'), the
\* directory under it, the suffix of the file name without the period ("" for
\* none) and whether the path has a head marker ('_head.js' or '-head.js').
FileName(project, static, dir, suffix, head) == [project |-> project, static |-> static, dir |-> dir, suffix |-> suffix, head |-> head]

\* A bundle path whose directory is named after its suffix.
BundlePath(project, hardcoded, ext, head) == FileName(project, hardcoded, ext, ext, head)

\* str.lower() of a suffix.
Lower(suffix) == IF suffix = "CSS" THEN "css" ELSE IF suffix = "JS" THEN "js" ELSE suffix

\* Line 812: the directories /(css|sass|scss|coffee|js)/ names an extension by.
path_extension_regex == {"css", "sass", "scss", "coffee", "js"}

\* Only the suffix looked at.
find_extension_in_the_suffix(filename) == Lower(filename.suffix)

\* Lines 814-827.
_find_extension(filename) ==
    IF filename.suffix # "" THEN Lower(filename.suffix)
    ELSE IF filename.dir \in path_extension_regex THEN Lower(filename.dir)
    ELSE ""

\* Lines 487-497: (project_name, hardcoded_version, bundle_postfix_path); the
\* hardcoded version is None when the second segment is 'static'.
_split_bundle_path(bundle_path) ==
    [project_name |-> bundle_path.project,
     hardcoded_version |-> IF bundle_path.static.kind = "build" THEN bundle_path.static ELSE Empty,
     bundle_postfix_path |-> [dir |-> bundle_path.dir, suffix |-> bundle_path.suffix, head |-> bundle_path.head]]

\* 'x/static/css/a.css', 'y/static/js/b.js', 'y/static-1.9/js/c_head.js',
\* 'y/static/sass/d.sass'
BundlePaths == {BundlePath("x", Empty, "css", FALSE), BundlePath("y", Empty, "js", FALSE), BundlePath("y", B_1_9, "js", TRUE), BundlePath("y", Empty, "sass", FALSE)}

\* What a fetch of a bundle's html gives: it raises, or a body of so many lines.
HtmlOutcomes == [raised : {TRUE}, lines : {0}] \cup [raised : {FALSE}, lines : {0, 1, 2}]

\* The lines of the html of the i-th bundle: html.split('\n').
HtmlLines(i, n) == [k \in 1..n |-> <<i, k>>]

EmptyScaffold == [head_css |-> <<>>, head_js |-> <<>>, footer_js |-> <<>>]

\* The fragment put in front of its bucket.
add_html_in_front(scaffold, file_name, html) ==
    IF _find_extension(file_name) \in CSS_EXTENSIONS THEN [scaffold EXCEPT !.head_css = html \o @]
    ELSE IF file_name.head THEN [scaffold EXCEPT !.head_js = html \o @]
    ELSE [scaffold EXCEPT !.footer_js = html \o @]

\* Lines 698-708.
add_html_by_file_name(scaffold, file_name, html) ==
    IF _find_extension(file_name) \in CSS_EXTENSIONS THEN [scaffold EXCEPT !.head_css = @ \o html]
    ELSE IF file_name.head THEN [scaffold EXCEPT !.head_js = @ \o html]
    ELSE [scaffold EXCEPT !.footer_js = @ \o html]

\* Line 191: '/static-' in bundle_path.
\* No path taken to hardcode a version.
never_hardcoded(bundle_path) == FALSE

contains_hardcoded_version(bundle_path) == Truthy(bundle_path.static)

\* Lines 263-268.
_check_use_local_daemon_for_project(a, bundle_path) == a.local_project_mode /\ bundle_path.project = HostProject

\* Lines 385-396: LocalDaemonBundleFetcher.fetch_include_html.
daemon_fetch_include_html(dnet) == IF dnet.raised THEN [ok |-> FALSE, exc |-> "FetchError", lines |-> 0] ELSE [ok |-> TRUE, exc |-> "", lines |-> dnet.lines]

Hardcoded(memo, cache, v) == Resolution(Ok(v), "hardcoded", memo, cache, FALSE, FALSE, 0)

\* Lines 435-454: S3BundleFetcher.fetch_include_html. `res` is the version
\* resolution it made.
s3_fetch_include_html(memo, cache, bundle_path, net, hnet) ==
    LET split == _split_bundle_path(bundle_path)
        res == IF Truthy(split.hardcoded_version)
               THEN Hardcoded(memo, cache, split.hardcoded_version)
               ELSE _fetch_build_version(memo, cache, split.project_name, net)
    IN  IF ~res.ok THEN [ok |-> FALSE, exc |-> res.exc, cause |-> "version", lines |-> 0, res |-> res]
        ELSE IF hnet.raised THEN [ok |-> FALSE, exc |-> "FetchError", cause |-> "html_fetch", lines |-> 0, res |-> res]
        ELSE [ok |-> TRUE, exc |-> "", cause |-> "", lines |-> hnet.lines, res |-> res]

\* A URL 'scheme://domain/project/build_version/asset_path'.
Url(scheme, domain, project, build_version, asset_path) == [scheme |-> scheme, domain |-> domain, project |-> project, build_version |-> build_version, asset_path |-> asset_path]
NoUrl == Url("", "", "", Empty, <<>>)
\* No get_bender_asset_url called on the instance yet.
NoAssetUrl == [called |-> FALSE, full_asset_path |-> <<>>, ENV |-> "", ok |-> TRUE, exc |-> "", logged |-> FALSE, via |-> "", url |-> NoUrl]

NoAssets == [alive |-> FALSE, use_local_daemon |-> FALSE, local_project_mode |-> FALSE, debug_setting |-> FALSE, default_bundles |-> <<>>,
             bundle_paths |-> <<>>, exclude_default_bundles |-> FALSE, paths |-> <<>>, is_debug |-> FALSE, skip_scaffold_cache |-> FALSE,
             local_daemon_memo |-> EmptyMemo,
             pc |-> "idle", i |-> 0, scaffold |-> EmptyScaffold, appended |-> {}, cause |-> "", exc |-> "",
             from_cache |-> FALSE, built |-> FALSE, asset_url |-> NoAssetUrl]

\* Lines 109-115: the default bundles, unless excluded, then the caller's.
included_bundle_paths(default_bundles, bundle_paths, exclude_default_bundles) ==
    (IF exclude_default_bundles THEN <<>> ELSE default_bundles) \o bundle_paths

\* request.GET: hsDebug ('' when absent) and the forceBuildFor-<project>
\* values (empty when absent). NoParams is a request without parameters.
NoParams == [hsDebug |-> "", forced |-> EmptyMemo]

\* Lines 278-295: hsDebug if given, or else what BENDER_LOCAL_MODE,
\* BENDER_DEBUG_MODE and ENV give (debug_setting).
_check_is_debug_mode(self, http_get_params) == IF http_get_params.hsDebug # "" THEN http_get_params.hsDebug # "false" ELSE self.debug_setting

\* Lines 297-325: the forced versions; a request with any of them skips the
\* scaffold cache.
_extract_forced_versions_from_params(http_get_params) ==
    [forced_build_version_by_project |-> http_get_params.forced, skip_scaffold_cache |-> \E q \in Projects : Truthy(http_get_params.forced[q])]

\* Lines 99-129: BenderAssets(bundle_paths, http_get_params,
\* exclude_default_bundles) in a process with the settings of `process`
\* (use_local_daemon, BENDER_LOCAL_PROJECT_MODE, DEFAULT_ASSET_BENDER_BUNDLES).
\* Line 122 constructs the S3BundleFetcher, line 129 the
\* LocalDaemonBundleFetcher, whose class has no
\* _fetch_version_from_version_pointer for a forced pointer (line 378).
BenderAssets(process, bundle_paths, http_get_params, exclude_default_bundles, items, nets) ==
    LET settings == [NoAssets EXCEPT !.use_local_daemon = process.use_local_daemon, !.local_project_mode = process.local_project_mode,
                                     !.debug_setting = process.debug_setting, !.default_bundles = process.default_bundles]
        x == _extract_forced_versions_from_params(http_get_params)
        forced == x.forced_build_version_by_project
        daemon_ok == PointerForced(forced) = {}
        self == [settings EXCEPT !.alive = TRUE, !.bundle_paths = bundle_paths, !.exclude_default_bundles = exclude_default_bundles,
                                 !.paths = included_bundle_paths(process.default_bundles, bundle_paths, exclude_default_bundles),
                                 !.is_debug = _check_is_debug_mode(settings, http_get_params),
                                 !.skip_scaffold_cache = x.skip_scaffold_cache,
                                 !.local_daemon_memo = [q \in Projects |-> IF _is_specific_build_name(forced[q]) THEN forced[q] ELSE Empty]]
    IN  With(_add_forced_versions_to_per_request_cache(EmptyMemo, forced, items, nets, NoFetches), LAMBDA r :
            IF r.ok /\ daemon_ok
            THEN [ok |-> TRUE, exc |-> "", self |-> self, s3_fetcher |-> [alive |-> TRUE, memo |-> r.memo, forced |-> forced, seeded |-> r.memo], fetches |-> r.fetches]
            ELSE [ok |-> FALSE, exc |-> IF ~r.ok THEN r.exc ELSE "AttributeError", self |-> settings, s3_fetcher |-> [NoFetcher EXCEPT !.forced = forced], fetches |-> r.fetches])

\* A request constructs its BenderAssets. Requests come one after the other.
NewBenderAssets(bundle_paths, http_get_params, exclude_default_bundles, items, nets) ==
    /\ assets.pc \in {"idle", "done", "aborted"}
    /\ \E new \in {BenderAssets(assets, bundle_paths, http_get_params, exclude_default_bundles, items, nets)} :
           /\ assets' = new.self
           /\ s3' = new.s3_fetcher
           /\ last' = [NoLast EXCEPT !.op = "new_bender_assets", !.ok = new.ok, !.exc = new.exc, !.fetches = new.fetches]
    /\ UNCHANGED <<files, project_version_cache, invalidated>>

\* Lines 253-261: the bundle paths with an extension that is only compiled.
Precompiled(paths) == {i \in 1..Len(paths) : _find_extension(paths[i]) \in PRECOMPILED_EXTENSIONS}

\* Lines 180-182: _generate_scaffold_without_cache up to its loop.
GenerateScaffoldStart ==
    /\ assets.alive
    /\ assets.pc = "idle"
    /\ assets' = IF Precompiled(assets.paths) # {} THEN [assets EXCEPT !.pc = "aborted", !.cause = "config", !.exc = "Exception"] ELSE [assets EXCEPT !.pc = "building", !.i = 1]
    /\ last' = [NoLast EXCEPT !.op = "generate_scaffold"]
    /\ UNCHANGED <<files, project_version_cache, invalidated, s3>>

\* Lines 189-209: _add_bundle_to_scaffold(scaffold, bundle_path) for the
\* i-th bundle path. Nothing in it catches an exception; line 209 formats a
\* string without a conversion with '%', a TypeError. `res` is the version
\* resolution the S3BundleFetcher made, if it was called (~by_daemon).
_add_bundle_to_scaffold(self, memo, cache, scaffold, i, net, dnet, hnet) ==
    LET bundle_path == self.paths[i]
        use_daemon == ~contains_hardcoded_version(bundle_path) /\ (self.use_local_daemon \/ _check_use_local_daemon_for_project(self, bundle_path))
        d == daemon_fetch_include_html(dnet)
        from_daemon == use_daemon /\ d.ok /\ d.lines > 0
        asked == IF ~use_daemon THEN "" ELSE IF ~d.ok THEN "raised" ELSE IF d.lines = 0 THEN "empty" ELSE "html"
        by_daemon == (use_daemon /\ ~d.ok) \/ from_daemon
    IN  With(s3_fetch_include_html(memo, cache, bundle_path, net, hnet), LAMBDA s :
            LET lines == IF from_daemon THEN d.lines ELSE s.lines
                Out(ok, cause, exc, after) == [ok |-> ok, cause |-> cause, exc |-> exc, scaffold |-> after, by_daemon |-> by_daemon, asked |-> asked, res |-> s.res]
            IN  IF use_daemon /\ ~d.ok THEN Out(FALSE, "daemon_fetch", d.exc, scaffold)
                ELSE IF ~from_daemon /\ ~s.ok THEN Out(FALSE, s.cause, s.exc, scaffold)
                ELSE IF lines = 0 THEN Out(FALSE, "empty_html", "TypeError", scaffold)
                ELSE Out(TRUE, "", "", add_html_by_file_name(scaffold, bundle_path, HtmlLines(i, lines))))

\* Lines 184-185: one pass of the loop, on the next bundle path.
AddBundleToScaffold(net, dnet, hnet) ==
    /\ assets.alive
    /\ assets.pc = "building"
    /\ assets.i <= Len(assets.paths)
    /\ \E bundle_path \in {assets.paths[assets.i]}, r \in {_add_bundle_to_scaffold(assets, s3.memo, project_version_cache, assets.scaffold, assets.i, net, dnet, hnet)} :
           /\ assets' = IF ~r.ok THEN [assets EXCEPT !.pc = "aborted", !.cause = r.cause, !.exc = r.exc]
                        ELSE [assets EXCEPT !.scaffold = r.scaffold, !.appended = @ \cup {assets.i}, !.i = @ + 1]
           /\ IF r.by_daemon
              THEN /\ UNCHANGED <<s3, project_version_cache, invalidated>>
                   /\ last' = [NoLast EXCEPT !.op = "add_bundle", !.project = bundle_path.project, !.source = "daemon", !.daemon = r.asked]
              ELSE /\ s3' = [s3 EXCEPT !.memo = r.res.memo]
                   /\ project_version_cache' = r.res.cache
                   /\ invalidated' = IF r.res.cacheWrite THEN invalidated \ {<<bundle_path.project, HostProject>>} ELSE invalidated
                   /\ last' = [op |-> "add_bundle", project |-> bundle_path.project, ok |-> r.res.ok, val |-> r.res.val, exc |-> r.res.exc, source |-> r.res.source, cacheRead |-> r.res.cacheRead, cacheWrite |-> r.res.cacheWrite, fetches |-> OneFetch(bundle_path.project, r.res.fetches), pointer |-> PointerGave(net, r.res.fetches), daemon |-> r.asked]
    /\ UNCHANGED files

\* Line 187: the scaffold is returned.
ReturnScaffold ==
    /\ assets.alive
    /\ assets.pc = "building"
    /\ assets.i > Len(assets.paths)
    /\ assets' = [assets EXCEPT !.pc = "done"]
    /\ last' = [NoLast EXCEPT !.op = "return_scaffold"]
    /\ UNCHANGED <<files, project_version_cache, invalidated, s3>>

\* The manifests a process can find under PROJ_DIR/static. The host project
\* comes with or without a fixed local version (a prebuilt build number, or
\* else an environment variable) and is a pointer in the manifest; the
\* dependencies come pinned or not, with or without prebuilt and frozen
\* entries. Values that are never read are left empty.
NoEntries == [q \in Projects |-> Empty]
DepEntries(S) == {d \in [Projects -> S \cup {Empty}] : d[HostProject] = Empty}
HostEntries(S) == {d \in [Projects -> S \cup {Empty}] : \A q \in Projects \ {HostProject} : d[q] = Empty}
FileSets ==
    {f \in [static_conf : DepEntries(StaticConfValues), prebuilt_build : PrebuiltBuildValues,
            prebuilt_deps : DepEntries(PrebuiltDepValues), frozen : DepEntries(FrozenValues),
            environ : HostEntries(EnvironValues)] : Truthy(f.prebuilt_build) => f.environ = NoEntries}

ResolverIdle ==
    /\ project_version_cache = EmptyCache
    /\ invalidated = {}
    /\ s3 = NoFetcher
    /\ last = NoLast

RequestIdle ==
    /\ scaffold_cache = NoScaffolds
    /\ template_context = NoContext

LoaderIdle ==
    /\ _file_json_cache = NoJson
    /\ loading = NoLoading

NoSessions ==
    resolutions = NoResolutions

Init ==
    /\ FetchIdle
    /\ files \in FileSets
    /\ ResolverIdle
    /\ assets = NoAssets
    /\ helper = NoHelper
    /\ RequestIdle
    /\ LoaderIdle
    /\ NoSessions

Next ==
    \/ \E forced \in ForcedMaps : \E items \in Orders(PointerForced(forced) \cup {q \in Projects : forced[q].kind = "build"}) : \E nets \in [PointerForced(forced) -> NetOutcomes] : NewS3Fetcher(forced, items, nets) /\ UNCHANGED <<fetchVars, assets, helper, requestVars, loaderVars, resolutions>>
    \/ \E p \in Projects, net \in NetOutcomes : FetchBuildVersion(p, net) /\ UNCHANGED <<fetchVars, assets, helper, requestVars, loaderVars, resolutions>>
    \/ \E p \in Projects : InvalidateCacheForDeploy(p) /\ UNCHANGED <<fetchVars, assets, helper, template_context, loaderVars, resolutions>>

Spec == Init /\ [][Next]_vars

\* One call of fetch_ab_url_with_retries, the resolver at rest.
DefaultFiles == [static_conf |-> [q \in Projects |-> Empty], prebuilt_build |-> Empty, prebuilt_deps |-> [q \in Projects |-> Empty], frozen |-> [q \in Projects |-> Empty], environ |-> [q \in Projects |-> Empty]]

InitFetch ==
    /\ FetchIdle
    /\ files = DefaultFiles
    /\ ResolverIdle
    /\ assets = NoAssets
    /\ helper = NoHelper
    /\ RequestIdle
    /\ LoaderIdle
    /\ NoSessions

NextFetch ==
    \/ \E r \in RetryArgs, t \in TimeoutArgs : FetchCall(r, t) /\ UNCHANGED <<resolverVars, assets, helper, requestVars, loaderVars, resolutions>>
    \/ \E reply \in Replies : FetchAttempt(reply) /\ UNCHANGED <<resolverVars, assets, helper, requestVars, loaderVars, resolutions>>
    \/ FetchFallOut /\ UNCHANGED <<resolverVars, assets, helper, requestVars, loaderVars, resolutions>>

SpecFetch == InitFetch /\ [][NextFetch]_vars


\* Scaffolds assembled over a few manifests.
ScaffoldFileSets == {f \in FileSets : f.static_conf = NoEntries /\ f.prebuilt_deps = NoEntries /\ f.frozen = NoEntries /\ f.environ = NoEntries}

\* settings.DEFAULT_ASSET_BENDER_BUNDLES: none, or 'y/static/js/b.js'.
DefaultBundles == {<<>>, <<BundlePath("y", Empty, "js", FALSE)>>}

InitScaffold ==
    /\ FetchIdle
    /\ files \in ScaffoldFileSets
    /\ ResolverIdle
    /\ \E d \in BOOLEAN, m \in BOOLEAN, b \in DefaultBundles : assets = [NoAssets EXCEPT !.use_local_daemon = d, !.local_project_mode = m, !.default_bundles = b]
    /\ helper = NoHelper
    /\ RequestIdle
    /\ LoaderIdle
    /\ NoSessions

NextScaffold ==
    \/ \E bundle_paths \in SeqsUpTo(BundlePaths, MaxBundles), exclude_default_bundles \in BOOLEAN :
            /\ ~assets.alive
            /\ exclude_default_bundles => assets.default_bundles # <<>>
            /\ Len(included_bundle_paths(assets.default_bundles, bundle_paths, exclude_default_bundles)) <= MaxBundles
            /\ NewBenderAssets(bundle_paths, NoParams, exclude_default_bundles, <<>>, <<>>)
            /\ UNCHANGED <<fetchVars, helper, requestVars, loaderVars, resolutions>>
    \/ GenerateScaffoldStart /\ UNCHANGED <<fetchVars, helper, requestVars, loaderVars, resolutions>>
    \/ \E net \in NetOutcomes, dnet \in HtmlOutcomes, hnet \in HtmlOutcomes : AddBundleToScaffold(net, dnet, hnet) /\ UNCHANGED <<fetchVars, helper, requestVars, loaderVars, resolutions>>
    \/ ReturnScaffold /\ UNCHANGED <<fetchVars, helper, requestVars, loaderVars, resolutions>>

SpecScaffold == InitScaffold /\ [][NextScaffold]_vars

(***************************************************************************)
(* Helpers without state                                                   *)
(***************************************************************************)
\* Each behaviour is one call of one helper on one input.

\* A build name as text: 'static-' or not, then the digits of the major
\* number, a dot, the digits of the minor number.
MajorTexts == {<<1>>, <<2>>, <<1, 0>>}
MinorTexts == {<<0>>, <<9>>, <<1, 0>>, <<9, 9>>}
BuildNames == [static : {TRUE}, major : MajorTexts, minor : MinorTexts]

\* The leading digit taken for the number.
int_of_first_digit(digits) == digits[1]

\* int() of a string of decimal digits.
RECURSIVE int(_)
int(digits) ==
    IF digits = <<>> THEN 0
    ELSE int(SubSeq(digits, 1, Len(digits) - 1)) * 10 + digits[Len(digits)]

\* Line 640: tuple(map(int, build.replace('static-', '').split('.')))
build_name_tuple(build) == Build(int(build.major), int(build.minor))

\* _compare_build_names on build names as text.
compare_build_names(x_build, y_build) == _compare_build_names(build_name_tuple(x_build), build_name_tuple(y_build))

CompareBuildNames(x, y, z) ==
    /\ helper = NoHelper
    /\ helper' = [op |-> "compare", x |-> x, y |-> y, z |-> z,
                  xy |-> compare_build_names(x, y), yx |-> compare_build_names(y, x),
                  yz |-> compare_build_names(y, z), xz |-> compare_build_names(x, z)]
    /\ UNCHANGED <<fetchVars, resolverVars, assets, requestVars, loaderVars, resolutions>>

\* The arguments of _maximum_version_of: absent, or a specific build.
MaxArgs == 3
VersionArgs == {Empty} \cup {build_name_tuple(b) : b \in BuildNames}

MaximumVersionOf(args) ==
    /\ helper = NoHelper
    /\ helper' = [op |-> "maximum", args |-> args, result |-> _maximum_version_of(args)]
    /\ UNCHANGED <<fetchVars, resolverVars, assets, requestVars, loaderVars, resolutions>>

\* Lines 665 and 669.
MAX_IE_CSS_INCLUDES == 20
MAX_IMPORTS_PER_STYLE_ELEMENT == 25

\* The lines of head_css and of the rendering: a <link> element with its url
\* and its href attribute (quoted, not closed by a quote, or missing), an
\* '@import "<url>";' line, the empty string, and None.
Link(url, href) == [kind |-> "link", url |-> url, href |-> href]
ImportLine(url) == [kind |-> "import", url |-> url, href |-> ""]
Blank == [kind |-> "blank", url |-> 0, href |-> ""]
None == [kind |-> "None", url |-> 0, href |-> ""]

\* Lines 760-778: the url between the quotes after href=; an exception of
\* index() is caught and gives "".
_convert_link_to_import(link_html) ==
    IF link_html.kind = "link" /\ link_html.href = "quoted" THEN ImportLine(link_html.url) ELSE Blank

\* The whole list as one group.
chunk_of_everything(n, iterable) == <<iterable>>

\* Lines 846-848: izip_longest(*[iter(iterable)]*n, fillvalue=None), groups
\* of n, the last one filled up with None.
chunk(n, iterable) ==
    [c \in 1..((Len(iterable) + n - 1) \div n) |->
        [i \in 1..n |-> IF (c - 1) * n + i <= Len(iterable) THEN iterable[(c - 1) * n + i] ELSE None]]

\* filter(None, lines): the lines that are neither None nor empty.
filter_None(lines) == SelectSeq(lines, LAMBDA l : l.kind \notin {"None", "blank"})

\* Lines 686-687.
total_css_files(self) == Len(self.head_css)

\* Excess that does not look at force_normal_include.
has_excess_whatever_the_include(self) == total_css_files(self) > MAX_IE_CSS_INCLUDES

\* Lines 730-731.
has_excess_stylesheets_for_IE(self) == total_css_files(self) > MAX_IE_CSS_INCLUDES /\ ~self.force_normal_include

\* Lines 724-728: the lines joined with a line break.
header_css_html(self) ==
    IF self.force_normal_include THEN self.head_css
    ELSE SubSeq(self.head_css, 1, Min(Len(self.head_css), MAX_IE_CSS_INCLUDES))

\* Lines 733-758: the <style> blocks joined with an empty line, each the
\* lines of one group; "" (no block) without excess.
header_forced_import_css_html_for_IE(self) ==
    IF has_excess_stylesheets_for_IE(self)
    THEN LET excess == SubSeq(self.head_css, MAX_IE_CSS_INCLUDES + 1, Len(self.head_css))
             import_lines == [i \in 1..Len(excess) |-> _convert_link_to_import(excess[i])]
             chunked_import_lines == chunk(MAX_IMPORTS_PER_STYLE_ELEMENT, import_lines)
         IN  [c \in 1..Len(chunked_import_lines) |-> filter_None(chunked_import_lines[c])]
    ELSE <<>>

\* The head_css lists rendered: n links, none or one of them (at the position
\* in `bad`) without a usable href.
MaxCss == 71
BadHrefs == {"missing", "unclosed"}
BadPositions(n) == {{}} \cup {{k} : k \in 1..n}
HeadCss(n, bad, href) == [k \in 1..n |-> Link(k, IF k \in bad THEN href ELSE "quoted")]

RenderHeadCss(head_css, force_normal_include) ==
    /\ helper = NoHelper
    /\ LET self == [head_css |-> head_css, force_normal_include |-> force_normal_include]
       IN  helper' = [op |-> "render", head_css |-> head_css, force_normal_include |-> force_normal_include,
                      header_css_html |-> header_css_html(self),
                      header_forced_import_css_html_for_IE |-> header_forced_import_css_html_for_IE(self)]
    /\ UNCHANGED <<fetchVars, resolverVars, assets, requestVars, loaderVars, resolutions>>

\* The paths add_html_by_file_name is called with, 'x/static/<dir>/<name>'
\* with or without a suffix and a head marker, the html fragments (what
\* html.split('\n') gives) and the scaffolds they are added to.
FileNames == {FileName(HostProject, Empty, dir, suffix, head) : dir \in {"css", "sass", "js", "img"}, suffix \in {"", "css", "CSS", "scss", "js", "coffee", "html"}, head \in BOOLEAN}
Fragments == {<<"link">>, <<"script">>, <<"link", "script">>}
Scaffolds == [head_css : {<<>>, <<"old link">>}, head_js : {<<>>, <<"old script">>}, footer_js : {<<>>, <<"old script">>}]

AddHtmlByFileName(scaffold, file_name, html) ==
    /\ helper = NoHelper
    /\ helper' = [op |-> "add_html", scaffold |-> scaffold, file_name |-> file_name, html |-> html,
                  after |-> add_html_by_file_name(scaffold, file_name, html)]
    /\ UNCHANGED <<fetchVars, resolverVars, assets, requestVars, loaderVars, resolutions>>

\* A string as what s.split('-') gives: its pieces between the dashes, so
\* 'a-b' is <<"a", "b">> and '' is <<"">>.
str(b) == IF b THEN <<"True">> ELSE <<"False">>

\* '-'.join(args): the pieces of the arguments, one after the other.
RECURSIVE join(_)
join(args) == IF args = <<>> THEN <<>> ELSE Head(args) \o join(Tail(args))

\* Line 39, socket.gethostname(), and __file__ of the installed module.
HOST_NAME == <<"node1">>
__file__ == <<"/venv/asset_bender/bundling.py">>

\* Lines 166-176: the string _get_scaffold_cache_key hashes, long_key; the
\* key is its md5 hexdigest.
long_key(self) ==
    join(self.included_bundle_paths \o <<self.host_project_name>> \o <<str(self.is_debug)>> \o <<str(self.use_local_daemon)>> \o <<HOST_NAME>> \o <<__file__>>)

\* Bundle paths: 'a/static/js/x', 'b/static/js/y.js' and
\* 'a/static/js/x-b/static/js/y.js'; the BenderAssets of two requests.
MaxKeyPaths == 2
KeyPaths == {<<"a/static/js/x">>, <<"b/static/js/y.js">>, <<"a/static/js/x", "b/static/js/y.js">>}
KeyAssets == [included_bundle_paths : SeqsUpTo(KeyPaths, MaxKeyPaths), host_project_name : {<<"x">>, <<"y">>}, is_debug : BOOLEAN, use_local_daemon : BOOLEAN]

ScaffoldCacheKeys(one, other) ==
    /\ helper = NoHelper
    /\ helper' = [op |-> "scaffold_key", one |-> one, other |-> other, long_key_one |-> long_key(one), long_key_other |-> long_key(other)]
    /\ UNCHANGED <<fetchVars, resolverVars, assets, requestVars, loaderVars, resolutions>>

InitHelpers ==
    /\ FetchIdle
    /\ files = DefaultFiles
    /\ ResolverIdle
    /\ assets = NoAssets
    /\ helper = NoHelper
    /\ RequestIdle
    /\ LoaderIdle
    /\ NoSessions

NextHelpers ==
    \/ helper = NoHelper /\ \E x \in BuildNames, y \in BuildNames, z \in BuildNames : CompareBuildNames(x, y, z)
    \/ helper = NoHelper /\ \E args \in SeqsUpTo(VersionArgs, MaxArgs) : MaximumVersionOf(args)
    \/ helper = NoHelper /\ \E scaffold \in Scaffolds, file_name \in FileNames, html \in Fragments : AddHtmlByFileName(scaffold, file_name, html)
    \/ helper = NoHelper /\ \E n \in 0..MaxCss, force \in BOOLEAN : \E bad \in BadPositions(n), href \in BadHrefs : RenderHeadCss(HeadCss(n, bad, href), force)
    \/ helper = NoHelper /\ \E one \in KeyAssets, other \in KeyAssets : ScaffoldCacheKeys(one, other)

SpecHelpers == InitHelpers /\ [][NextHelpers]_vars

(***************************************************************************)
(* Requests: generate_scaffold, get_static_url, invalidation               *)
(***************************************************************************)
\* The handlers of this section run one after the other, each as a whole.

\* The text of a bundle path as s.split('-') gives it: 'y/static-1.9/...'
\* has a dash after 'static'.
PathText(path) == IF Truthy(path.static) THEN <<<<path.project, "/static">>, <<path.static, path.dir, path.suffix, path.head>>>> ELSE <<path>>

\* A key without the bundle paths.
scaffold_cache_key_without_paths(self) ==
    long_key([included_bundle_paths |-> <<>>, host_project_name |-> <<HostProject>>, is_debug |-> self.is_debug, use_local_daemon |-> self.use_local_daemon])

\* Lines 166-178.
_get_scaffold_cache_key(self) ==
    long_key([included_bundle_paths |-> [i \in 1..Len(self.paths) |-> PathText(self.paths[i])], host_project_name |-> <<HostProject>>,
              is_debug |-> self.is_debug, use_local_daemon |-> self.use_local_daemon])

\* The scaffold cache used whatever the request's parameters are.
use_scaffold_cache_unless_daemon(self) == ~self.use_local_daemon

\* Lines 152 and 161: no scaffold cache with the local daemon or with
\* forceBuildFor- parameters.
use_scaffold_cache(self) == ~self.use_local_daemon /\ ~self.skip_scaffold_cache

\* Lines 184-185: the loop from the i-th bundle path on; outs[i] is what the
\* fetches for the i-th bundle come back with.
RECURSIVE add_bundles_to_scaffold(_, _, _, _, _, _)
add_bundles_to_scaffold(self, memo, cache, scaffold, i, outs) ==
    IF i > Len(self.paths) THEN [ok |-> TRUE, exc |-> "", scaffold |-> scaffold, memo |-> memo, cache |-> cache, bundles |-> i - 1]
    ELSE With(_add_bundle_to_scaffold(self, memo, cache, scaffold, i, outs[i].net, outs[i].dnet, outs[i].hnet), LAMBDA r :
            LET memo_after == IF r.by_daemon THEN memo ELSE r.res.memo
                cache_after == IF r.by_daemon THEN cache ELSE r.res.cache
            IN  IF ~r.ok THEN [ok |-> FALSE, exc |-> r.exc, scaffold |-> EmptyScaffold, memo |-> memo_after, cache |-> cache_after, bundles |-> i]
                ELSE add_bundles_to_scaffold(self, memo_after, cache_after, r.scaffold, i + 1, outs))

\* Lines 180-187.
_generate_scaffold_without_cache(self, memo, cache, outs) ==
    IF Precompiled(self.paths) # {} THEN [ok |-> FALSE, exc |-> "Exception", scaffold |-> EmptyScaffold, memo |-> memo, cache |-> cache, bundles |-> 0]
    ELSE add_bundles_to_scaffold(self, memo, cache, EmptyScaffold, 1, outs)

\* Lines 141-164: generate_scaffold() on the request's BenderAssets. A
\* Scaffold object is always true, so `not scaffold` is a miss.
GenerateScaffold(outs) ==
    /\ assets.alive
    /\ \E cache_key \in {_get_scaffold_cache_key(assets)} :
       \E got \in {IF use_scaffold_cache(assets) THEN scaffold_cache_get(scaffold_cache, cache_key) ELSE {}} :
       \E built \in {IF got # {} THEN [scaffold |-> CHOOSE x \in got : TRUE] ELSE _generate_scaffold_without_cache(assets, s3.memo, project_version_cache, outs)} :
       \E scaffold \in {built.scaffold} :
           IF got # {}
           THEN /\ assets' = [assets EXCEPT !.pc = "done", !.scaffold = scaffold, !.from_cache = TRUE, !.built = FALSE, !.cause = "", !.exc = "", !.i = 0, !.appended = {}]
                /\ scaffold_cache' = scaffold_cache_set(scaffold_cache, scaffold, cache_key)
                /\ last' = [NoLast EXCEPT !.op = "generate_scaffold"]
                /\ UNCHANGED <<s3, project_version_cache, invalidated>>
           ELSE /\ assets' = [assets EXCEPT !.pc = IF built.ok THEN "done" ELSE "aborted", !.scaffold = scaffold, !.from_cache = FALSE, !.built = TRUE,
                                             !.cause = "", !.exc = built.exc, !.i = built.bundles, !.appended = {}]
                /\ scaffold_cache' = IF built.ok /\ use_scaffold_cache(assets) THEN scaffold_cache_set(scaffold_cache, scaffold, cache_key) ELSE scaffold_cache
                /\ s3' = [s3 EXCEPT !.memo = built.memo]
                /\ project_version_cache' = built.cache
                /\ invalidated' = {k \in invalidated : ~Truthy(built.cache[k])}
                /\ last' = [NoLast EXCEPT !.op = "generate_scaffold", !.ok = built.ok, !.exc = built.exc]
    /\ UNCHANGED <<files, template_context>>

\* Lines 211-213: invalidate_scaffold_cache() on the request's BenderAssets.
InvalidateScaffoldCache ==
    /\ assets.alive
    /\ scaffold_cache' = scaffold_cache_invalidate_key(scaffold_cache, _get_scaffold_cache_key(assets))
    /\ last' = [NoLast EXCEPT !.op = "invalidate_scaffold_cache"]
    /\ UNCHANGED <<files, project_version_cache, invalidated, s3, assets, template_context>>

\* Lines 832-842: the name in front of '/static/'; none ('') without it, as
\* in 'y/static-1.9/...'.
_extract_project_name_from_path(path_or_url) == IF path_or_url.project # "" /\ ~Truthy(path_or_url.static) THEN path_or_url.project ELSE ""

\* What the daemon answers to /builds/<project>: the fetch raises, or a body.
DaemonVersions == [raised : {TRUE}, text : {Empty}] \cup [raised : {FALSE}, text : {Empty, B_1_10}]

\* The 'static' of the daemon's URL without a version.
StaticDir == [kind |-> "static", name |-> "", major |-> 0, minor |-> 0]

\* Lines 411-432: LocalDaemonBundleFetcher._fetch_build_version; result.text
\* goes to the memo as it is.
daemon_fetch_build_version(memo, project_name, vnet) ==
    IF Truthy(memo[project_name]) THEN [ok |-> TRUE, val |-> memo[project_name], exc |-> "", source |-> "memo", memo |-> memo, fetches |-> 0]
    ELSE IF vnet.raised THEN [ok |-> FALSE, val |-> Empty, exc |-> "FetchError", source |-> "daemon", memo |-> memo, fetches |-> 1]
    ELSE [ok |-> TRUE, val |-> vnet.text, exc |-> "", source |-> "daemon", memo |-> [memo EXCEPT ![project_name] = vnet.text], fetches |-> 1]

\* Lines 398-406: LocalDaemonBundleFetcher.get_asset_url; any exception
\* gives the URL under 'static'.
daemon_get_asset_url(memo, project_name, asset_path, vnet) ==
    With(daemon_fetch_build_version(memo, project_name, vnet), LAMBDA r :
        [ok |-> TRUE, exc |-> "", url |-> Url("http", "daemon", project_name, IF r.ok THEN r.val ELSE StaticDir, asset_path), res |-> r])

\* Lines 457-460: S3BundleFetcher.get_asset_url.
s3_get_asset_url(memo, cache, project_name, asset_path, net) ==
    With(_fetch_build_version(memo, cache, project_name, net), LAMBDA r :
        [ok |-> r.ok, exc |-> r.exc, url |-> IF r.ok THEN Url("https", "cdn", project_name, r.val, asset_path) ELSE NoUrl, res |-> r])

\* An error logged in every environment.
precompiled_is_logged(ENV) == TRUE

\* Lines 234-237: in 'prod' the error is logged, elsewhere raised.
precompiled_is_logged_in(ENV) == ENV = "prod"

\* Lines 215-243: get_bender_asset_url(full_asset_path). `res` is the version
\* resolution of the fetcher that was called, `via`.
get_bender_asset_url(self, memo, cache, full_asset_path, ENV, net, vnet) ==
    LET project_name == _extract_project_name_from_path(full_asset_path)
        asset_path == <<full_asset_path.dir, full_asset_path.suffix, full_asset_path.head>>
        extension == _find_extension(full_asset_path)
        precompiled == extension \in PRECOMPILED_EXTENSIONS
        Called(ok, exc, logged, via, url) == [called |-> TRUE, full_asset_path |-> full_asset_path, ENV |-> ENV, ok |-> ok, exc |-> exc, logged |-> logged, via |-> via, url |-> url]
        Refused(exc) == [out |-> Called(FALSE, exc, FALSE, "", NoUrl), memo |-> memo, cache |-> cache, local_daemon_memo |-> self.local_daemon_memo,
                        res |-> Resolution(Ok(Empty), "", memo, cache, FALSE, FALSE, 0)]
    IN  IF project_name = "" THEN Refused("Exception")
        ELSE IF precompiled /\ ~precompiled_is_logged_in(ENV) THEN Refused("Exception")
        ELSE IF self.use_local_daemon
        THEN With(daemon_get_asset_url(self.local_daemon_memo, project_name, asset_path, vnet), LAMBDA d :
                [out |-> Called(d.ok, d.exc, precompiled, "daemon", d.url), memo |-> memo, cache |-> cache, local_daemon_memo |-> d.res.memo,
                 res |-> Resolution(d.res, d.res.source, memo, cache, FALSE, FALSE, d.res.fetches)])
        ELSE With(s3_get_asset_url(memo, cache, project_name, asset_path, net), LAMBDA s :
                [out |-> Called(s.ok, s.exc, precompiled, "s3", s.url), memo |-> s.res.memo, cache |-> s.res.cache, local_daemon_memo |-> self.local_daemon_memo,
                 res |-> s.res])

\* The template context of a page: the dict of generate_context_dict (lines
\* 130-139), with the BenderAssets of the request under
\* 'bender_assets_instance', or a context without it.
NewTemplateContext(with_instance) ==
    /\ with_instance => assets.alive /\ assets.pc = "done"
    /\ template_context' = [NoContext EXCEPT !.given = TRUE, !.bender_assets = with_instance]
    /\ last' = [NoLast EXCEPT !.op = "new_template_context"]
    /\ UNCHANGED <<files, project_version_cache, invalidated, s3, assets, scaffold_cache>>

\* Lines 47-66: get_static_url(full_asset_path, template_context,
\* bender_assets): `how` is "instance" when the request's BenderAssets is
\* passed, "context" when the template context is, "neither" otherwise.
\* Line 64 is a get with a default: nothing is put on the context.
GetStaticUrl(full_asset_path, how, ENV, net, vnet) ==
    /\ how = "instance" => assets.alive
    /\ how = "context" => template_context.given
    /\ \E found \in {how = "instance" \/ (how = "context" /\ template_context.bender_assets)} :
       \E new \in {BenderAssets(assets, <<>>, NoParams, FALSE, <<>>, <<>>)} :
       \E bender_assets \in {IF found THEN assets ELSE new.self}, s3_fetcher \in {IF found THEN s3 ELSE new.s3_fetcher} :
       \E r \in {get_bender_asset_url(bender_assets, s3_fetcher.memo, project_version_cache, full_asset_path, ENV, net, vnet)} :
           /\ assets' = [bender_assets EXCEPT !.local_daemon_memo = r.local_daemon_memo, !.asset_url = r.out]
           /\ s3' = [s3_fetcher EXCEPT !.memo = r.memo]
           /\ project_version_cache' = r.cache
           /\ invalidated' = {k \in invalidated : ~Truthy(r.cache[k])}
           /\ last' = [op |-> "get_static_url", project |-> _extract_project_name_from_path(full_asset_path), ok |-> r.res.ok, val |-> r.res.val, exc |-> r.out.exc,
                        source |-> r.res.source, cacheRead |-> r.res.cacheRead, cacheWrite |-> r.res.cacheWrite,
                        fetches |-> OneFetch(full_asset_path.project, r.res.fetches), pointer |-> PointerGave(net, IF r.out.via = "s3" THEN r.res.fetches ELSE 0), daemon |-> how]
           /\ template_context' = IF how = "context"
                                  THEN [template_context EXCEPT !.calls = @ + 1, !.constructed = IF found THEN @ ELSE @ + 1,
                                                                !.reads = [q \in Projects |-> IF q = full_asset_path.project /\ r.res.cacheRead /\ r.res.ok THEN @[q] + 1 ELSE @[q]]]
                                  ELSE [template_context EXCEPT !.calls = @ + 1]
    /\ UNCHANGED <<files, scaffold_cache>>

\* Requests for a scaffold in one process, one after the other, and deploys.
RequestBundles == {<<BundlePath("y", Empty, "js", FALSE)>>, <<BundlePath("x", Empty, "css", FALSE)>>}
RequestParams == [hsDebug : {"", "true"}, forced : {EmptyMemo, [EmptyMemo EXCEPT !["y"] = B_2_0], [EmptyMemo EXCEPT !["y"] = Pointer("edge")]}]
RequestNets == {n \in NetOutcomes : n.raised \/ n.text = Text(B_1_9, TRUE)}
RequestHtml == {h \in HtmlOutcomes : h.raised \/ h.lines = 1}

InitRequests ==
    /\ FetchIdle
    /\ files = DefaultFiles
    /\ ResolverIdle
    /\ \E d \in BOOLEAN : assets = [NoAssets EXCEPT !.use_local_daemon = d]
    /\ helper = NoHelper
    /\ RequestIdle
    /\ LoaderIdle
    /\ NoSessions

NextRequests ==
    \/ \E bundle_paths \in RequestBundles, http_get_params \in RequestParams :
         \E items \in Orders({q \in Projects : Truthy(http_get_params.forced[q])}), nets \in [PointerForced(http_get_params.forced) -> RequestNets] :
            /\ NewBenderAssets(bundle_paths, http_get_params, FALSE, items, nets)
            /\ UNCHANGED <<fetchVars, helper, requestVars, loaderVars, resolutions>>
    \/ \E outs \in [1..1 -> [net : RequestNets, dnet : RequestHtml, hnet : RequestHtml]] : GenerateScaffold(outs) /\ UNCHANGED <<fetchVars, helper, loaderVars, resolutions>>
    \/ InvalidateScaffoldCache /\ UNCHANGED <<fetchVars, helper, loaderVars, resolutions>>
    \/ \E p \in Projects : InvalidateCacheForDeploy(p) /\ UNCHANGED <<fetchVars, assets, helper, template_context, loaderVars, resolutions>>

SpecRequests == InitRequests /\ [][NextRequests]_vars

\* One page: a request, its template context, and up to MaxUrlCalls calls of
\* get_static_url while the page is rendered, with deploys in between.
MaxUrlCalls == 2
UrlParams == [hsDebug : {""}, forced : {EmptyMemo, [EmptyMemo EXCEPT !["y"] = B_2_0], [EmptyMemo EXCEPT !["y"] = Pointer("edge")]}]
UrlPaths == {FileName("y", Empty, "js", "js", FALSE), FileName("y", Empty, "css", "css", FALSE), FileName("y", Empty, "sass", "sass", FALSE), FileName("y", Empty, "js", "coffee", FALSE)}
Envs == {"prod", "qa"}
UrlNets == {n \in NetOutcomes : n.raised \/ n.text = Text(B_1_9, TRUE)}

InitUrls ==
    /\ FetchIdle
    /\ files = DefaultFiles
    /\ ResolverIdle
    /\ \E d \in BOOLEAN : assets = [NoAssets EXCEPT !.use_local_daemon = d]
    /\ helper = NoHelper
    /\ RequestIdle
    /\ LoaderIdle
    /\ NoSessions

NextUrls ==
    \/ \E http_get_params \in UrlParams :
         \E items \in Orders({q \in Projects : Truthy(http_get_params.forced[q])}), nets \in [PointerForced(http_get_params.forced) -> UrlNets] :
            /\ ~assets.alive
            /\ last.op = "none"
            /\ NewBenderAssets(<<>>, http_get_params, FALSE, items, nets)
            /\ UNCHANGED <<fetchVars, helper, requestVars, loaderVars, resolutions>>
    \/ \E outs \in {<<>>} : assets.pc = "idle" /\ template_context = NoContext /\ GenerateScaffold(outs) /\ UNCHANGED <<fetchVars, helper, loaderVars, resolutions>>
    \/ \E with_instance \in BOOLEAN : template_context = NoContext /\ NewTemplateContext(with_instance) /\ UNCHANGED <<fetchVars, helper, loaderVars, resolutions>>
    \/ \E p \in Projects \ {HostProject} : template_context.calls > 0 /\ InvalidateCacheForDeploy(p) /\ UNCHANGED <<fetchVars, assets, helper, template_context, loaderVars, resolutions>>
    \/ \E full_asset_path \in UrlPaths, how \in {"instance", "context", "neither"}, ENV \in Envs, net \in UrlNets, vnet \in DaemonVersions :
            /\ template_context.calls < MaxUrlCalls
            /\ IF assets.use_local_daemon THEN net.raised ELSE vnet.raised
            /\ GetStaticUrl(full_asset_path, how, ENV, net, vnet)
            /\ UNCHANGED <<fetchVars, helper, loaderVars, resolutions>>

SpecUrls == InitUrls /\ [][NextUrls]_vars

(***************************************************************************)
(* _load_json_file_with_cache under concurrent callers                     *)
(***************************************************************************)
\* Threads of one process call _load_json_file_with_cache; a thread can be
\* preempted between the lookup, the read of the file and the store. The
\* manifests do not change while the process runs.
MaxThreads == 2
Threads == 1..MaxThreads
JsonPaths == {"static_conf.json", "prebuilt_recursive_static_conf.json"}
Missing == <<"no file">>
EmptyDict == <<"{}">>
JsonOf(path) == <<"json of", path>>
Disks == [JsonPaths -> {TRUE, FALSE}]
NoCall == [pc |-> "idle", path |-> "", throws |-> FALSE, data |-> Missing]
NotReturned == [path \in JsonPaths |-> Missing]

\* A hit gives {} whatever was stored.
cached_as_empty_dict(c, path) == {EmptyDict : e \in {x \in c : x[1] = path}}

\* Lines 785-786: `path in _file_json_cache` and `_file_json_cache[path]`.
cached(c, path) == {e[2] : e \in {x \in c : x[1] = path}}

\* Lines 803 and 809: `_file_json_cache[path] = data`.
store(c, path, data) == {x \in c : x[1] # path} \cup {<<path, data>>}

\* The call returns `data`; `first` keeps what the first call that returned
\* for a path returned.
Return(t, data) ==
    LET path == loading.calls[t].path
    IN  [loading EXCEPT !.calls[t].pc = "returned", !.calls[t].data = data,
                        !.first[path] = IF @ = Missing THEN data ELSE @]

\* Lines 781-786: the call and the lookup. `throws` tells whether
\* throw_exception_if is given and true without BENDER_QA_EMULATION.
LoadJsonFileWithCache(t, path, throws) ==
    /\ loading.calls[t].pc \in {"idle", "returned", "raised"}
    /\ LET called == [loading EXCEPT !.calls[t] = [pc |-> "missed", path |-> path, throws |-> throws, data |-> Missing]]
           hit == cached(_file_json_cache, path)
       IN  loading' = IF hit # {}
                      THEN [called EXCEPT !.calls[t].pc = "returned", !.calls[t].data = CHOOSE d \in hit : TRUE,
                                          !.first[path] = IF @ = Missing THEN CHOOSE d \in hit : TRUE ELSE @]
                      ELSE called
    /\ UNCHANGED _file_json_cache

\* Lines 788-807: os.path.isfile, then the IOError, the {} to store, or the
\* file opened and parsed.
ReadJsonFile(t) ==
    /\ loading.calls[t].pc = "missed"
    /\ LET call == loading.calls[t]
       IN  loading' = IF ~loading.disk[call.path]
                      THEN IF call.throws THEN [loading EXCEPT !.calls[t].pc = "raised"] ELSE [loading EXCEPT !.calls[t].pc = "read", !.calls[t].data = EmptyDict]
                      ELSE [loading EXCEPT !.calls[t].pc = "read", !.calls[t].data = JsonOf(call.path)]
    /\ UNCHANGED _file_json_cache

\* Lines 803-804 and 809-810: the store and the return.
StoreJson(t) ==
    /\ loading.calls[t].pc = "read"
    /\ _file_json_cache' = store(_file_json_cache, loading.calls[t].path, loading.calls[t].data)
    /\ loading' = Return(t, loading.calls[t].data)

InitLoader ==
    /\ FetchIdle
    /\ files = DefaultFiles
    /\ ResolverIdle
    /\ assets = NoAssets
    /\ helper = NoHelper
    /\ RequestIdle
    /\ NoSessions
    /\ _file_json_cache = NoJson
    /\ \E disk \in Disks : loading = [disk |-> disk, first |-> NotReturned, calls |-> [t \in Threads |-> NoCall]]

NextLoader ==
    \/ \E t \in Threads, path \in JsonPaths, throws \in BOOLEAN : LoadJsonFileWithCache(t, path, throws) /\ UNCHANGED <<fetchVars, resolverVars, assets, helper, requestVars, resolutions>>
    \/ \E t \in Threads : ReadJsonFile(t) /\ UNCHANGED <<fetchVars, resolverVars, assets, helper, requestVars, resolutions>>
    \/ \E t \in Threads : StoreJson(t) /\ UNCHANGED <<fetchVars, resolverVars, assets, helper, requestVars, resolutions>>

SpecLoader == InitLoader /\ [][NextLoader]_vars

(***************************************************************************)
(* _fetch_build_version in concurrent sessions                             *)
(***************************************************************************)
\* Requests served at the same time resolve versions over the one
\* project_version_cache, each with an S3BundleFetcher of its own without
\* forced versions, while deploys invalidate the cache. A session can be
\* overtaken between its get of the cache, its fetch from the origin and its
\* set of the cache. `before` marks a call that holds a version it read
\* before an invalidation of its key; `stale` keeps the keys whose entry was
\* written by such a call.
MaxSessions == 2
Sessions == 1..MaxSessions
NoResolution == [pc |-> "idle", project_name |-> "", build_version |-> Empty, source |-> "", before |-> FALSE]
Completed(call) == call.pc \in {"idle", "returned", "raised"}
Invalidates(p, k) == k[1] = p \/ k[2] = p

\* Lines 499-510: the local version is returned; the memo of a new fetcher
\* is empty.
BeginFetchBuildVersion(t, project_name) ==
    /\ Completed(resolutions.calls[t])
    /\ \E build_version \in {_fetch_local_project_build_version(project_name)} :
         resolutions' = [resolutions EXCEPT !.calls[t] =
                            IF Truthy(build_version)
                            THEN [NoResolution EXCEPT !.pc = "returned", !.project_name = project_name, !.build_version = build_version, !.source = "local"]
                            ELSE [NoResolution EXCEPT !.pc = "memcache", !.project_name = project_name]]
    /\ UNCHANGED <<files, project_version_cache, invalidated, s3, last>>

\* Lines 512-514: project_version_cache.get.
GetFromProjectVersionCache(t) ==
    /\ resolutions.calls[t].pc = "memcache"
    /\ \E build_version \in {cache_get(project_version_cache, resolutions.calls[t].project_name, HostProject)} :
         resolutions' = [resolutions EXCEPT !.calls[t] =
                            IF Truthy(build_version) THEN [@ EXCEPT !.pc = "got", !.build_version = build_version, !.source = "cache"]
                            ELSE [@ EXCEPT !.pc = "miss"]]
    /\ UNCHANGED <<files, project_version_cache, invalidated, s3, last>>

\* Lines 516-524: after a miss _fetch_build_version_without_cache; what it
\* raises leaves the call, as does line 524 for an empty version.
FetchWithoutCache(t, net) ==
    /\ resolutions.calls[t].pc = "miss"
    /\ \E r \in {_fetch_build_version_without_cache(resolutions.calls[t].project_name, net)} :
         resolutions' = [resolutions EXCEPT !.calls[t] =
                            IF r.ok /\ Truthy(r.val) THEN [@ EXCEPT !.pc = "fetched", !.build_version = r.val, !.source = "origin"]
                            ELSE [@ EXCEPT !.pc = "raised"]]
    /\ UNCHANGED <<files, project_version_cache, invalidated, s3, last>>

\* Lines 526-533: project_version_cache.set of what was got or fetched, the
\* memo, and the return.
SetInProjectVersionCache(t) ==
    /\ resolutions.calls[t].pc \in {"got", "fetched"}
    /\ \E call \in {resolutions.calls[t]} : \E k \in {<<call.project_name, HostProject>>} :
         /\ project_version_cache' = cache_set(project_version_cache, call.build_version, call.project_name, HostProject)
         /\ invalidated' = invalidated \ {k}
         /\ resolutions' = [resolutions EXCEPT !.calls[t].pc = "returned", !.stale = IF call.before THEN @ \cup {k} ELSE @ \ {k}]
    /\ UNCHANGED <<files, s3, last>>

\* invalidate_cache_for_deploy(p) while calls are in progress.
InvalidateDuringResolutions(p) ==
    /\ InvalidateCacheForDeploy(p)
    /\ resolutions' = [calls |-> [t \in Sessions |->
                                    LET call == resolutions.calls[t]
                                    IN  IF call.pc \in {"got", "fetched"} /\ Invalidates(p, <<call.project_name, HostProject>>)
                                        THEN [call EXCEPT !.before = TRUE] ELSE call],
                        stale |-> {k \in resolutions.stale : ~Invalidates(p, k)}]

InitSessions ==
    /\ FetchIdle
    /\ files \in ScaffoldFileSets
    /\ ResolverIdle
    /\ assets = NoAssets
    /\ helper = NoHelper
    /\ RequestIdle
    /\ LoaderIdle
    /\ resolutions = [calls |-> [t \in Sessions |-> NoResolution], stale |-> {}]

NextSessions ==
    \/ \E t \in Sessions, project_name \in Projects : BeginFetchBuildVersion(t, project_name) /\ UNCHANGED <<fetchVars, assets, helper, requestVars, loaderVars>>
    \/ \E t \in Sessions : GetFromProjectVersionCache(t) /\ UNCHANGED <<fetchVars, assets, helper, requestVars, loaderVars>>
    \/ \E t \in Sessions, net \in NetOutcomes : FetchWithoutCache(t, net) /\ UNCHANGED <<fetchVars, assets, helper, requestVars, loaderVars>>
    \/ \E t \in Sessions : SetInProjectVersionCache(t) /\ UNCHANGED <<fetchVars, assets, helper, requestVars, loaderVars>>
    \/ \E p \in Projects : InvalidateDuringResolutions(p) /\ UNCHANGED <<fetchVars, assets, helper, template_context, loaderVars>>

SpecSessions == InitSessions /\ [][NextSessions]_vars

(***************************************************************************)
(* Version resolution: properties                                          *)
(***************************************************************************)
Resolved == last.op = "fetch_build_version"
Key(p) == <<p, HostProject>>

\* At least, in (major, minor) order.
AtLeast(v, w) == Parses(v) /\ Parses(w) /\ (v.major > w.major \/ (v.major = w.major /\ v.minor >= w.minor))

C5_OriginResultAtLeastPrebuiltAndFrozen ==
    (Resolved /\ last.source = "origin" /\ last.ok) =>
        /\ Truthy(_get_prebuilt_version(last.project)) => AtLeast(last.val, _get_prebuilt_version(last.project))
        /\ Truthy(_get_frozen_at_deploy_version(last.project)) => AtLeast(last.val, _get_frozen_at_deploy_version(last.project))

\* C6: invalidate_cache_for_deploy(x) empties exactly the entries whose
\* project or host_project is x and leaves the others as they were; a
\* resolution that finds its entry invalidated (and neither a local version
\* nor a memo entry) reads the cache, misses, and resolves from the origin.
C6_InvalidationForcesOriginAndSparesOthers ==
    [][/\ last'.op = "invalidate" =>
            \A k \in CacheKeys : project_version_cache'[k] = (IF k[1] = last'.project \/ k[2] = last'.project THEN Empty ELSE project_version_cache[k])
       /\ (/\ last'.op = "fetch_build_version"
           /\ Key(last'.project) \in invalidated
           /\ ~Truthy(s3.memo[last'.project])
           /\ ~Truthy(_fetch_local_project_build_version(last'.project))) =>
            (last'.cacheRead /\ last'.source = "origin")]_vars

\* A deploy of y has removed y's entry and left the host project's.
C6_Witness ==
    /\ last.op = "invalidate"
    /\ last.project = "y"
    /\ Key("y") \in invalidated
    /\ ~Truthy(project_version_cache[Key("y")])
    /\ Truthy(project_version_cache[Key(HostProject)])

\* C8: a forced specific build is put in the memo by the constructor without
\* a pointer fetch, and resolving that project later reads and writes no
\* durable cache entry and fetches nothing; a forced pointer is fetched once
\* by a constructor that completes; the constructor never touches the cache.
C8_ForcedSpecificBuildNeedsNoCacheNoNetwork ==
    [][/\ last'.op = "new_s3" =>
            /\ project_version_cache' = project_version_cache
            /\ ~last'.cacheRead /\ ~last'.cacheWrite
            /\ \A p \in Projects :
                /\ s3'.forced[p].kind = "build" => (last'.fetches[p] = 0 /\ (last'.ok => s3'.memo[p] = s3'.forced[p]))
                /\ s3'.forced[p].kind = "ptr" => (last'.fetches[p] <= 1 /\ (last'.ok => last'.fetches[p] = 1))
                /\ s3'.forced[p].kind = "none" => last'.fetches[p] = 0
       /\ (last'.op = "fetch_build_version" /\ s3.forced[last'.project].kind = "build") =>
            /\ last'.ok
            /\ ~last'.cacheRead /\ ~last'.cacheWrite
            /\ last'.fetches = NoFetches
            /\ project_version_cache' = project_version_cache]_vars

\* y is forced to static-2.0 and resolves to it from the memo.
C8_Witness ==
    /\ Resolved
    /\ last.project = "y"
    /\ s3.forced["y"] = B_2_0
    /\ last.source = "memo"
    /\ last.val = B_2_0
    /\ ~last.cacheRead
    /\ last.fetches = NoFetches

C10_FrozenVersionIsAFloor ==
    (Resolved /\ last.ok /\ ~Truthy(s3.forced[last.project]) /\ Truthy(files.frozen[last.project])) => AtLeast(last.val, files.frozen[last.project])

\* The prebuilt and frozen versions of the project a resolution was about.
OtherCandidates(p) == <<_get_prebuilt_version(p), _get_frozen_at_deploy_version(p)>>

\* C11 (as stated): when the pointer fetch of an uncached resolution raised
\* or came back empty and a prebuilt or frozen version is present, the
\* resolution succeeds with the maximum of the present ones.
C11_FailedPointerFetchLeavesOtherCandidates ==
    (Resolved /\ last.source = "origin" /\ last.pointer \in {"raised", "empty"} /\ FilterTruthy(OtherCandidates(last.project)) # <<>>) =>
        (last.ok /\ last.val = _maximum_version_of(OtherCandidates(last.project)).val)

\* C11 (amended): a pointer fetch that raised or came back with an empty body
\* fails the whole uncached resolution with that failure, whatever the
\* prebuilt and frozen versions are, and nothing is written to the durable
\* cache or the memo; only a body of white space leaves the pointer
\* candidate absent and the maximum of the present other two is returned.
C11_FailedPointerFetchFailsTheResolution ==
    [][(last'.op = "fetch_build_version" /\ last'.source = "origin") =>
        /\ last'.pointer \in {"raised", "empty"} =>
            /\ ~last'.ok
            /\ last'.exc = (IF last'.pointer = "raised" THEN "FetchError" ELSE "AttributeError")
            /\ ~last'.cacheWrite
            /\ project_version_cache' = project_version_cache
            /\ s3'.memo = s3.memo
        /\ (last'.pointer = "blank" /\ FilterTruthy(OtherCandidates(last'.project)) # <<>>) =>
            (last'.ok /\ last'.val = _maximum_version_of(OtherCandidates(last'.project)).val)]_vars

\* The pointer fetch of y raised while y has a frozen and a prebuilt version:
\* the resolution failed.
C11_Witness ==
    /\ Resolved
    /\ last.project = "y"
    /\ last.source = "origin"
    /\ last.pointer = "raised"
    /\ files.frozen["y"] = B_1_10
    /\ files.prebuilt_deps["y"] = B_2_0
    /\ ~last.ok

\* C12: when the pointer gives no version and the project has neither a
\* prebuilt nor a frozen version, the resolution fails with BundleException
\* and writes neither the durable cache nor the memo.
C12_AllCandidatesAbsentRaisesBundleException ==
    (Resolved /\ last.source = "origin" /\ last.pointer \in {"raised", "empty", "blank"} /\ FilterTruthy(OtherCandidates(last.project)) = <<>>) =>
        (~last.ok /\ last.exc = "BundleException" /\ ~last.cacheWrite)


(***************************************************************************)
(* Scaffold assembly: properties                                           *)
(***************************************************************************)
\* C7: a bundle whose version cannot be resolved, or whose html comes back
\* empty, is skipped and never ends the assembly: the bundles after it are
\* still processed and the scaffold is returned.
C7_UnresolvedOrEmptyBundleIsSkipped ==
    /\ assets.pc = "aborted" => assets.cause \notin {"version", "empty_html"}
    /\ assets.pc = "done" => assets.i = Len(assets.paths) + 1

\* C15: a bundle path with a hardcoded version is split into its project,
\* that version and the rest; its html is fetched for exactly that version;
\* no memo, cache, manifest or pointer is looked up and the cache and the
\* memo stay as they were; the local daemon is not asked, whatever the
\* daemon settings are.
C15_HardcodedVersionBypassesResolution ==
    [][(last'.op = "add_bundle" /\ assets.pc = "building" /\ assets.i <= Len(assets.paths)) =>
        LET bundle_path == assets.paths[assets.i]
        IN  bundle_path.static.kind = "build" =>
                /\ _split_bundle_path(bundle_path).project_name = bundle_path.project
                /\ _split_bundle_path(bundle_path).hardcoded_version = bundle_path.static
                /\ last'.daemon = ""
                /\ last'.source = "hardcoded"
                /\ last'.ok
                /\ last'.val = bundle_path.static
                /\ ~last'.cacheRead /\ ~last'.cacheWrite
                /\ last'.fetches = NoFetches
                /\ last'.pointer = ""
                /\ project_version_cache' = project_version_cache
                /\ s3'.memo = s3.memo]_vars

\* With use_local_daemon set, the html of 'y/static-1.9/...' was taken from
\* the remote store at static-1.9 and appended.
C15_Witness ==
    /\ last.op = "add_bundle"
    /\ assets.use_local_daemon
    /\ last.source = "hardcoded"
    /\ last.val = B_1_9
    /\ last.daemon = ""
    /\ assets.appended # {}
    /\ assets.scaffold.head_js # <<>>

\* C16: when the daemon's fetch of a bundle failed or came back empty, the
\* assembly does not end there: the remote store is asked for the bundle.
C16_DaemonAbsentFallsThroughToRemoteStore ==
    (last.op = "add_bundle" /\ last.daemon \in {"raised", "empty"}) =>
        (assets.cause # "daemon_fetch" /\ last.source # "daemon")


(***************************************************************************)
(* fetch_ab_url_with_retries: properties                                   *)
(***************************************************************************)
TimeoutsGiven == f_pc # "idle" /\ ~f_args.timeouts.isNone
RetriesOmitted == f_pc # "idle" /\ f_args.retries.isNone

\* C2: with timeouts given, the i-th _download_url call gets
\* timeouts[min(i, len(timeouts)) - 1] (past the end: the last one); attempts
\* happen one at a time, each after a failed one; the first attempt that
\* succeeds is the last call made, its response is what the call returns, and
\* with k failures before it exactly k + 1 calls were made.
C2_EscalatingTimeoutsStopAtSuccess ==
    TimeoutsGiven =>
        /\ \A i \in 1..Len(f_calls) : f_calls[i] = f_args.timeouts.seq[Min(i, Len(f_args.timeouts.seq))]
        /\ f_okAt = 0 => Len(f_calls) = f_fails
        /\ f_okAt # 0 =>
            /\ f_pc = "returned"
            /\ Len(f_calls) = f_okAt
            /\ f_fails = f_okAt - 1
            /\ f_reply.kind = "response"
            /\ f_out = Returned(Response(f_reply))
        /\ RetriesOmitted => Len(f_calls) <= Len(f_args.timeouts.seq)

\* Two failures, then the third attempt of timeouts [1, 2, 5] succeeds.
C2_Witness ==
    /\ RetriesOmitted
    /\ TimeoutsGiven
    /\ f_args.timeouts.seq = <<SomeInt(1), SomeInt(2), SomeInt(5)>>
    /\ f_pc = "returned"
    /\ f_fails = 2
    /\ f_okAt = 3
    /\ f_calls = <<SomeInt(1), SomeInt(2), SomeInt(5)>>

\* C3: with n timeouts and retries omitted, when every attempt made has
\* failed the call has not returned; there is never an (n+1)-th attempt; the
\* n-th failure ends the call by raising, and an error that carries no HTTP
\* status is raised as it is, and is the one of the n-th attempt.
C3_AllAttemptsFailRaisesLastError ==
    (TimeoutsGiven /\ RetriesOmitted) =>
        LET n == Len(f_args.timeouts.seq) IN
        /\ Len(f_calls) <= n
        /\ (f_fails >= 1 /\ f_fails = Len(f_calls)) => f_pc # "returned"
        /\ (f_fails >= 1 /\ f_fails = n) => f_pc = "raised"
        /\ f_pc = "raised" =>
            /\ f_fails = n
            /\ Len(f_calls) = n
            /\ f_out.how = "raised"
            /\ f_out.e.at = n
            /\ f_out.e.status.isNone => f_out.e = Exc(f_reply.kind, NoneInt, n)

\* Three timeouts, three failed attempts, the last one a timeout.
C3_Witness ==
    /\ TimeoutsGiven
    /\ RetriesOmitted
    /\ Len(f_args.timeouts.seq) = 3
    /\ f_pc = "raised"
    /\ f_fails = 3
    /\ f_reply.kind = "Timeout"
    /\ f_out.e = Exc("Timeout", NoneInt, 3)

\* The failure class the status of the last attempt's response asks for.
ExpectedWrapper(s) == IF s >= 500 THEN "server" ELSE IF s \in {404, 410} THEN "notfound" ELSE IF s < 200 \/ (400 <= s /\ s < 500) THEN "client" ELSE "none"

\* C4: when the last attempt fails with an HTTP status s, the error raised is
\* the AssetBenderException of the class of s (server error for s >= 500, not
\* found for 404 and 410, client error for the other 4xx and for s < 200);
\* only an error without a status is raised unwrapped.
C4_LastFailureClassifiedByStatus ==
    (f_pc = "raised" /\ f_out.e.type \in {"HTTPError", "ConnectionError", "Timeout", "FauxException"}) =>
        IF f_reply.kind = "response"
        THEN f_out.e.wrapper = ExpectedWrapper(f_reply.status)
        ELSE f_out.e.wrapper = "none"

(***************************************************************************)
(* Build names: properties                                                 *)
(***************************************************************************)
\* The order of two numbers written without leading zeros.
DigitsLess(a, b) ==
    \/ Len(a) < Len(b)
    \/ Len(a) = Len(b) /\ \E i \in 1..Len(a) : a[i] < b[i] /\ \A j \in 1..(i - 1) : a[j] = b[j]

\* The order of (major, minor) pairs: major first, minor when majors are equal.
PairOrder(x, y) ==
    IF x.major # y.major THEN (IF DigitsLess(x.major, y.major) THEN -1 ELSE 1)
    ELSE IF x.minor # y.minor THEN (IF DigitsLess(x.minor, y.minor) THEN -1 ELSE 1)
    ELSE 0

\* C13: _compare_build_names orders build names by the pair of integers
\* (major, minor), major first; it is 0 exactly for equal pairs; it is
\* antisymmetric and transitive.
C13_CompareBuildNamesOrdersByMajorThenMinor ==
    helper.op = "compare" =>
        /\ helper.xy = PairOrder(helper.x, helper.y)
        /\ helper.xy = 0 <=> helper.x = helper.y
        /\ helper.yx = 0 - helper.xy
        /\ (helper.xy <= 0 /\ helper.yz <= 0) => helper.xz <= 0
        /\ (helper.xy < 0 /\ helper.yz <= 0) => helper.xz < 0
        /\ (helper.xy <= 0 /\ helper.yz < 0) => helper.xz < 0

\* static-2.0 > static-1.10 > static-1.9
C13_Witness ==
    /\ helper.op = "compare"
    /\ helper.x = [static |-> TRUE, major |-> <<2>>, minor |-> <<0>>]
    /\ helper.y = [static |-> TRUE, major |-> <<1>>, minor |-> <<1, 0>>]
    /\ helper.z = [static |-> TRUE, major |-> <<1>>, minor |-> <<9>>]
    /\ helper.xy = 1
    /\ helper.yz = 1
    /\ helper.xz = 1

\* The arguments in another order.
Reordered(args, perm) == [i \in 1..Len(args) |-> args[perm[i]]]

\* C14: _maximum_version_of fails when every argument is absent; otherwise
\* it returns a present argument that is at least every present argument,
\* the same one in whatever order the arguments come.
C14_MaximumVersionOfReturnsTheGreatestPresent ==
    helper.op = "maximum" =>
        LET present == {i \in 1..Len(helper.args) : Truthy(helper.args[i])}
        IN  /\ present = {} => ~helper.result.ok
            /\ present # {} =>
                /\ helper.result.ok
                /\ \E i \in present : helper.result.val = helper.args[i]
                /\ \A j \in present : AtLeast(helper.result.val, helper.args[j])
                /\ \A perm \in Permutations(1..Len(helper.args)) :
                        _maximum_version_of(Reordered(helper.args, perm)) = helper.result

\* The maximum of static-1.9, nothing and static-1.10 is static-1.10.
C14_Witness ==
    /\ helper.op = "maximum"
    /\ helper.args = <<B_1_9, Empty, B_1_10>>
    /\ helper.result = Ok(B_1_10)

(***************************************************************************)
(* Scaffold rendering: properties                                          *)
(***************************************************************************)
Rendered == helper.op = "render"
WellFormed(link) == link.href = "quoted"

\* The entries after the first MAX_IE_CSS_INCLUDES.
Excess(head_css) == SubSeq(head_css, MAX_IE_CSS_INCLUDES + 1, Len(head_css))

\* The @import lines of the well-formed entries of a list, in its order.
ImportsOf(links) ==
    LET well_formed == SelectSeq(links, WellFormed)
    IN  [i \in 1..Len(well_formed) |-> ImportLine(well_formed[i].url)]

\* The lines of the blocks, one block after the other.
RECURSIVE Flat(_)
Flat(blocks) == IF blocks = <<>> THEN <<>> ELSE Head(blocks) \o Flat(Tail(blocks))

\* C17: header_css_html is every entry with force_normal_include and the
\* first min(n, 20) entries without; header_forced_import_css_html_for_IE is
\* empty with force_normal_include or n <= 20, and otherwise is made of the
\* imports of the entries 21..n, in order.
C17_FirstTwentyAsLinksTheRestAsImports ==
    Rendered =>
        LET n == Len(helper.head_css)
            imports == helper.header_forced_import_css_html_for_IE
        IN  /\ helper.force_normal_include => (helper.header_css_html = helper.head_css /\ imports = <<>>)
            /\ ~helper.force_normal_include =>
                /\ helper.header_css_html = SubSeq(helper.head_css, 1, IF n < 20 THEN n ELSE 20)
                /\ n <= 20 => imports = <<>>
                /\ n > 20 => (imports # <<>> /\ Flat(imports) = ImportsOf(Excess(helper.head_css)))

\* 25 links: the first 20 as they are, and one block of 5 imports.
C17_Witness ==
    /\ Rendered
    /\ ~helper.force_normal_include
    /\ Len(helper.head_css) = 25
    /\ \A k \in 1..25 : WellFormed(helper.head_css[k])
    /\ Len(helper.header_css_html) = 20
    /\ Len(helper.header_forced_import_css_html_for_IE) = 1
    /\ Len(helper.header_forced_import_css_html_for_IE[1]) = 5

\* C18: with e well-formed excess entries the imports come in ceil(e/25)
\* blocks, in the entries' order; every block but the last holds exactly 25
\* and the last one holds the rest, at least one.
C18_ImportsInBlocksOfTwentyFive ==
    (Rendered /\ ~helper.force_normal_include /\ Len(helper.head_css) > 20
        /\ \A k \in 21..Len(helper.head_css) : WellFormed(helper.head_css[k])) =>
        LET e == Len(helper.head_css) - 20
            blocks == helper.header_forced_import_css_html_for_IE
            last_block == Len(blocks)
        IN  /\ last_block = (e + 24) \div 25
            /\ \A c \in 1..(last_block - 1) : Len(blocks[c]) = 25
            /\ Len(blocks[last_block]) = e - 25 * (last_block - 1)
            /\ Len(blocks[last_block]) >= 1
            /\ Flat(blocks) = ImportsOf(Excess(helper.head_css))

\* 50 links: 30 in excess, in a block of 25 and a block of 5.
C18_Witness ==
    /\ Rendered
    /\ ~helper.force_normal_include
    /\ Len(helper.head_css) = 50
    /\ \A k \in 1..50 : WellFormed(helper.head_css[k])
    /\ Len(helper.header_forced_import_css_html_for_IE) = 2
    /\ Len(helper.header_forced_import_css_html_for_IE[1]) = 25
    /\ Len(helper.header_forced_import_css_html_for_IE[2]) = 5

\* How many times a line comes in a list.
Times(line, lines) == Cardinality({i \in 1..Len(lines) : lines[i] = line})

\* C19: every well-formed entry is rendered exactly once, as a link or as an
\* import; an excess entry without a usable href gives no import, leaves no
\* style block empty, and the imports still fill every block but the last
\* with 25.
C19_EveryEntryOnceAndNoEmptyBlock ==
    Rendered =>
        LET blocks == helper.header_forced_import_css_html_for_IE
        IN  /\ \A k \in 1..Len(helper.head_css) :
                    WellFormed(helper.head_css[k]) =>
                        Times(helper.head_css[k], helper.header_css_html) + Times(ImportLine(helper.head_css[k].url), Flat(blocks)) = 1
            /\ Len(Flat(blocks)) = Len(ImportsOf(IF helper.force_normal_include THEN <<>> ELSE Excess(helper.head_css)))
            /\ \A c \in 1..Len(blocks) : blocks[c] # <<>>
            /\ \A c \in 1..(Len(blocks) - 1) : Len(blocks[c]) = 25

\* The bucket the path alone asks for: head_css for a style-sheet suffix, or
\* without a suffix a style-sheet directory; else head_js with a head marker;
\* else footer_js.
BucketOf(file_name) ==
    IF (file_name.suffix # "" /\ file_name.suffix \in {"css", "CSS", "sass", "scss"})
       \/ (file_name.suffix = "" /\ file_name.dir \in {"css", "sass", "scss"})
    THEN "head_css"
    ELSE IF file_name.head THEN "head_js" ELSE "footer_js"

\* C20: add_html_by_file_name appends the fragment to the one bucket the
\* path asks for and leaves the other two as they were, whatever the html is.
C20_FragmentGoesToTheBucketOfItsPath ==
    helper.op = "add_html" =>
        \A bucket \in {"head_css", "head_js", "footer_js"} :
            helper.after[bucket] = (IF bucket = BucketOf(helper.file_name) THEN helper.scaffold[bucket] \o helper.html ELSE helper.scaffold[bucket])

\* 'x/static/sass/<name>' without a suffix and with a head marker: the
\* fragment, a script, is appended to head_css.
C20_Witness ==
    /\ helper.op = "add_html"
    /\ helper.file_name = FileName(HostProject, Empty, "sass", "", TRUE)
    /\ helper.html = <<"script">>
    /\ helper.scaffold.head_css = <<"old link">>
    /\ helper.after.head_css = <<"old link", "script">>
    /\ helper.after.head_js = helper.scaffold.head_js
    /\ helper.after.footer_js = helper.scaffold.footer_js

(***************************************************************************)
(* Scaffold order: properties                                              *)
(***************************************************************************)
\* Line <<i, k>> is line k of the html of the i-th included bundle.
LineBefore(a, b) == a[1] < b[1] \/ (a[1] = b[1] /\ a[2] < b[2])

\* C21: in each bucket the lines are in the order they were appended: the
\* lines of an earlier bundle come before those of a later bundle, each
\* bundle's lines in their own order and in the bucket of its path; a step
\* of the loop only appends; the bundles are the default bundles, unless
\* excluded, followed by the caller's bundles.
C21_BucketsKeepTheOrderOfTheBundles ==
    [][(assets.alive /\ assets'.alive) =>
        /\ \A bucket \in {"head_css", "head_js", "footer_js"} :
              LET before == assets.scaffold[bucket]
                  after == assets'.scaffold[bucket]
              IN  /\ \A a \in 1..Len(after), b \in 1..Len(after) : a < b => LineBefore(after[a], after[b])
                  /\ \A a \in 1..Len(after) : BucketOf(assets'.paths[after[a][1]]) = bucket
                  /\ last'.op = "add_bundle" => Len(before) <= Len(after) /\ SubSeq(after, 1, Len(before)) = before
        /\ LET defaults == IF assets'.exclude_default_bundles THEN <<>> ELSE assets'.default_bundles
           IN  /\ Len(assets'.paths) = Len(defaults) + Len(assets'.bundle_paths)
               /\ \A j \in 1..Len(defaults) : assets'.paths[j] = defaults[j]
               /\ \A j \in 1..Len(assets'.bundle_paths) : assets'.paths[Len(defaults) + j] = assets'.bundle_paths[j]]_vars

\* The default bundle 'y/static/js/b.js' and the caller's 'y/static/js/b.js':
\* two lines of the first, then one line of the second, in footer_js.
C21_Witness ==
    /\ assets.pc = "done"
    /\ assets.default_bundles = <<BundlePath("y", Empty, "js", FALSE)>>
    /\ assets.bundle_paths = <<BundlePath("y", Empty, "js", FALSE)>>
    /\ ~assets.exclude_default_bundles
    /\ assets.scaffold.footer_js = <<<<1, 1>>, <<1, 2>>, <<2, 1>>>>

(***************************************************************************)
(* Pointers and the caches: properties                                     *)
(***************************************************************************)
\* C22: a pointer is resolved to a specific build before it is cached or
\* returned: every value in the durable cache and in the memo of the session,
\* and every value a resolution returns, is a specific build.
C22_OnlySpecificBuildsAreCachedAndReturned ==
    /\ \A k \in CacheKeys : Truthy(project_version_cache[k]) => _is_specific_build_name(project_version_cache[k])
    /\ s3.alive => \A q \in Projects : Truthy(s3.memo[q]) => _is_specific_build_name(s3.memo[q])
    /\ (last.op = "fetch_build_version" /\ last.ok) => _is_specific_build_name(last.val)

\* C23: two BenderAssets that differ in the list of bundle paths, the host
\* project, the debug flag or the daemon flag have different strings to hash
\* in _get_scaffold_cache_key, and two that are equal have the same.
C23_DifferentRequestsHaveDifferentKeyStrings ==
    helper.op = "scaffold_key" => ((helper.one = helper.other) <=> (helper.long_key_one = helper.long_key_other))

\* C27: a resolution that succeeds by the durable cache or by the origin has
\* written the version it returns to the durable cache under (project,
\* host project) and to the memo under the project.
C27_SuccessIsWrittenToCacheAndMemo ==
    [][(last'.op = "fetch_build_version" /\ last'.ok /\ last'.source \in {"cache", "origin"}) =>
        /\ last'.cacheWrite
        /\ s3'.memo[last'.project] = last'.val
        /\ cache_get(project_version_cache', last'.project, HostProject) = last'.val]_vars

\* y resolved from the origin with an empty cache: static-1.9 is now in the
\* cache and in the memo.
C27_Witness ==
    /\ last.op = "fetch_build_version"
    /\ last.project = "y"
    /\ last.ok
    /\ last.source = "origin"
    /\ last.val = B_1_9
    /\ s3.memo["y"] = B_1_9
    /\ project_version_cache[<<"y", HostProject>>] = B_1_9

(***************************************************************************)
(* Asset URLs: properties                                                  *)
(***************************************************************************)
\* The latest get_static_url used the BenderAssets it was given or found.
Reused(context) == last'.daemon = "instance" \/ (last'.daemon = "context" /\ context.bender_assets)

\* C24: for a path with the extension sass, scss or coffee,
\* get_bender_asset_url raises outside 'prod' and has resolved no version,
\* read no cache and fetched nothing; in 'prod' it logs the error and goes on:
\* when the version resolves, the URL returned is built from it. A js or
\* css path is neither refused nor logged.
C24_PrecompiledPathRaisesExceptInProd ==
    [][last'.op = "get_static_url" =>
        LET u == assets'.asset_url
            precompiled == u.full_asset_path.suffix \in {"sass", "scss", "coffee"}
        IN  /\ (precompiled /\ u.ENV # "prod") =>
                    /\ ~u.ok /\ u.exc = "Exception" /\ ~u.logged /\ u.via = ""
                    /\ last'.source = "" /\ ~last'.cacheRead /\ ~last'.cacheWrite /\ last'.fetches = NoFetches
                    /\ project_version_cache' = project_version_cache
                    /\ Reused(template_context) => (s3'.memo = s3.memo /\ assets'.local_daemon_memo = assets.local_daemon_memo)
            /\ (precompiled /\ u.ENV = "prod") =>
                    /\ u.logged
                    /\ u.via \in {"s3", "daemon"}
                    /\ (last'.ok /\ Truthy(last'.val)) => (u.ok /\ u.url.build_version = last'.val /\ u.url.project = last'.project)
            /\ u.full_asset_path.suffix \in {"js", "css"} => (~u.logged /\ u.via \in {"s3", "daemon"})]_vars

\* In 'prod', 'y/static/sass/a.sass': logged, and the URL with static-1.9.
C24_Witness ==
    /\ last.op = "get_static_url"
    /\ assets.asset_url.full_asset_path = FileName("y", Empty, "sass", "sass", FALSE)
    /\ assets.asset_url.ENV = "prod"
    /\ assets.asset_url.logged
    /\ assets.asset_url.ok
    /\ assets.asset_url.url = Url("https", "cdn", "y", B_1_9, <<"sass", "sass", FALSE>>)

\* C26: the calls of get_static_url with one template context construct at
\* most one BenderAssets, and at most one resolution per project reads the
\* durable cache.
C26_OneBenderAssetsPerTemplateContext ==
    template_context.given => (template_context.constructed <= 1 /\ \A q \in Projects : template_context.reads[q] <= 1)

\* C28: a fetcher that holds a version for a project other than the host
\* project returns it from its memo, without a read of the durable cache and
\* without a fetch, whatever has become of the durable cache; a successful
\* resolution leaves its version in the memo; this for the S3BundleFetcher
\* and for the LocalDaemonBundleFetcher; the memo of a new fetcher holds the
\* forced versions only.
C28_MemoAnswersLaterResolutions ==
    [][/\ (last'.op = "get_static_url" /\ assets'.asset_url.via # "" /\ last'.project # HostProject) =>
            LET via == assets'.asset_url.via
                before == IF ~Reused(template_context) THEN EmptyMemo ELSE IF via = "daemon" THEN assets.local_daemon_memo ELSE s3.memo
                after == IF via = "daemon" THEN assets'.local_daemon_memo ELSE s3'.memo
            IN  /\ Truthy(before[last'.project]) =>
                    /\ last'.ok /\ last'.val = before[last'.project] /\ last'.source = "memo"
                    /\ ~last'.cacheRead /\ ~last'.cacheWrite /\ last'.fetches = NoFetches
                    /\ after = before
                    /\ project_version_cache' = project_version_cache
                /\ (last'.ok /\ Truthy(last'.val)) => after[last'.project] = last'.val
                /\ \A q \in Projects \ {last'.project} : after[q] = before[q]
       /\ (last'.op = "new_bender_assets" /\ last'.ok) =>
            \A q \in Projects :
                /\ Truthy(s3'.memo[q]) => Truthy(s3'.forced[q])
                /\ _is_specific_build_name(s3'.forced[q]) => s3'.memo[q] = s3'.forced[q]
                /\ assets'.local_daemon_memo[q] = (IF _is_specific_build_name(s3'.forced[q]) THEN s3'.forced[q] ELSE Empty)]_vars

\* The second call on the request's BenderAssets, after a deploy of y has
\* emptied the durable cache: static-1.9 from the memo.
C28_Witness ==
    /\ last.op = "get_static_url"
    /\ last.daemon = "instance"
    /\ last.project = "y"
    /\ last.source = "memo"
    /\ last.val = B_1_9
    /\ assets.asset_url.via = "s3"
    /\ s3.forced = EmptyMemo
    /\ <<"y", HostProject>> \in invalidated
    /\ ~Truthy(project_version_cache[<<"y", HostProject>>])

(***************************************************************************)
(* The scaffold cache: properties                                          *)
(***************************************************************************)
\* The scaffolds stored for the BenderAssets of the request.
Stored(c) == scaffold_cache_get(c, _get_scaffold_cache_key(assets))
Forced == \E q \in Projects : Truthy(s3.forced[q])

\* C29: with the local daemon or with a forceBuildFor- parameter,
\* generate_scaffold builds the scaffold and leaves the scaffold cache as it
\* was, whatever is stored for the request's key.
C29_DaemonAndForcedRequestsLeaveTheScaffoldCache ==
    [][(last'.op = "generate_scaffold" /\ (assets.use_local_daemon \/ Forced)) =>
        /\ scaffold_cache' = scaffold_cache
        /\ assets'.built
        /\ ~assets'.from_cache]_vars

\* A request with forceBuildFor-y has built its scaffold while one is stored
\* under its key.
C29_Witness ==
    /\ last.op = "generate_scaffold"
    /\ Forced
    /\ ~assets.use_local_daemon
    /\ assets.pc = "done"
    /\ assets.built
    /\ Stored(scaffold_cache) # {}

C25_JsonCacheIsAddOnly ==
    [][/\ \A e \in _file_json_cache : cached(_file_json_cache', e[1]) = {e[2]}
       /\ \A t \in Threads : loading'.calls[t].pc = "returned" => loading'.calls[t].data = loading'.first[loading'.calls[t].path]]_vars

\* Two threads missed 'static_conf.json' one after the other; the first has
\* stored and returned its data, the second stores the same and returns.
C25_Witness ==
    /\ loading.disk["static_conf.json"]
    /\ loading.calls[1].pc = "returned"
    /\ loading.calls[1].path = "static_conf.json"
    /\ loading.calls[2].pc = "read"
    /\ loading.calls[2].path = "static_conf.json"
    /\ cached(_file_json_cache, "static_conf.json") = {JsonOf("static_conf.json")}

(***************************************************************************)
(* Forced versions at construction: properties                             *)
(***************************************************************************)
\* C31: BenderAssets(...) with any forced versions is constructed, unless
\* the fetch of a forced pointer raised, and the memos of both its fetchers
\* hold a forced specific build as it is and a build for a forced pointer.
C31_BothFetchersAreConstructedWithAnyForcedVersions ==
    (last.op = "new_bender_assets" /\ last.exc # "FetchError") =>
        /\ last.ok
        /\ \A q \in Projects :
              /\ _is_specific_build_name(s3.forced[q]) => (s3.memo[q] = s3.forced[q] /\ assets.local_daemon_memo[q] = s3.forced[q])
              /\ q \in PointerForced(s3.forced) => (Truthy(s3.memo[q]) /\ Truthy(assets.local_daemon_memo[q]))

(***************************************************************************)
(* Concurrent sessions and deploys: properties                             *)
(***************************************************************************)
\* C32: when no _fetch_build_version is in progress, the durable cache holds
\* no version that a call read, from the cache or from the origin, before an
\* invalidation of its key and wrote after it.
C32_NoVersionFromBeforeAnInvalidationIsLeftInTheCache ==
    (\A t \in Sessions : Completed(resolutions.calls[t])) =>
        \A k \in resolutions.stale : ~Truthy(project_version_cache[k])

=============================================================================
